---------------------------- MODULE Spec2Model ----------------------------
(***************************************************************************)
(* A model of scripts/style.py, the LSST coding-style checker.             *)
(*                                                                         *)
(* A text is a sequence of one-character strings; a raw line keeps its     *)
(* trailing "\n" as readlines() delivers it.  The regular expressions of   *)
(* the program are written as syntax trees and matched by a backtracking   *)
(* matcher that follows the preference order of Python's re module, so     *)
(* that re.search and re.sub are computed and not assumed.                 *)
(***************************************************************************)
EXTENDS Integers, Sequences, FiniteSets, TLC

(***************************************************************************)
(* Bounds of the model.                                                    *)
(***************************************************************************)
MaxLines == 3
MaxFlagLines == 4
MaxNestedLines == 5
MaxReportLines == 2
MaxIgnoreLines == 2
MaxPrivateLines == 4
MaxPlainLines == 3
MaxOpenLines == 3
MaxOrderLines == 2
MaxBraceLines == 3
MaxSwitchLines == 4
MaxDestructorLines == 4
MaxDefinitionLines == 4

(***************************************************************************)
(* Character classes of Python's re module, over the characters used.      *)
(***************************************************************************)
Lower == {"a", "b", "c", "d", "e", "f", "g", "h", "i", "j", "k", "l", "m",
          "n", "o", "p", "q", "r", "s", "t", "u", "v", "w", "x", "y", "z"}
Upper == {"A", "B", "C", "D", "E", "F", "G", "H", "I", "J", "K", "L", "M",
          "N", "O", "P", "Q", "R", "S", "T", "U", "V", "W", "X", "Y", "Z"}
Digit == {"0", "1", "2", "3", "4", "5", "6", "7", "8", "9"}
WordChar == Lower \cup Upper \cup Digit \cup {"_"}
SpaceChar == {" ", "\t", "\n", "\r", "\f"}

Inf == 1000

\* regular-expression syntax trees
In(S) == [t |-> "set", s |-> S, neg |-> FALSE]
NotIn(S) == [t |-> "set", s |-> S, neg |-> TRUE]
Ch(c) == In({c})
Dot == NotIn({"\n"})
Bol == [t |-> "bol"]
Eol == [t |-> "eol"]
Cat(a) == [t |-> "seq", a |-> a]
Alt(a) == [t |-> "alt", a |-> a]
Rep(r, lo, hi) == [t |-> "rep", r |-> r, lo |-> lo, hi |-> hi, lazy |-> FALSE]
Star(r) == Rep(r, 0, Inf)
Plus(r) == Rep(r, 1, Inf)
Opt(r) == Rep(r, 0, 1)
LazyStar(r) == [t |-> "rep", r |-> r, lo |-> 0, hi |-> Inf, lazy |-> TRUE]
LazyPlus(r) == [t |-> "rep", r |-> r, lo |-> 1, hi |-> Inf, lazy |-> TRUE]
Grp(r) == [t |-> "grp", r |-> r]
Lit(w) == Cat([k \in 1..Len(w) |-> Ch(w[k])])
S0 == Star(In(SpaceChar))
S1 == Plus(In(SpaceChar))
W1 == Plus(In(WordChar))

NoGroup == <<0, 0>>

Min(S) == CHOOSE x \in S : \A y \in S : x <= y

\* the number of characters of s from position i on that the class c accepts
runLength(c, s, i) ==
    LET stops == {j \in i..Len(s) : (s[j] \in c.s) = c.neg}
    IN  (IF stops = {} THEN Len(s) + 1 ELSE Min(stops)) - i

(***************************************************************************)
(* reGo(todo, s, i, g): Python's backtracking matcher.  todo is the        *)
(* sequence of expressions still to match from position i of s and g is    *)
(* group 1 so far; the result is <<end position, group 1>> of the first    *)
(* match in the matcher's order of preference (greedy repeats take the     *)
(* longest run first, lazy ones the shortest, alternatives go left to      *)
(* right), or << >> when nothing matches.                                  *)
(***************************************************************************)
RECURSIVE reGo(_, _, _, _)
RECURSIVE reRun(_, _, _, _, _, _)

reGo(todo, s, i, g) ==
    IF todo = << >> THEN <<i, g>>
    ELSE
    LET h == Head(todo)
        rest == Tail(todo)
    IN  CASE h.t = "set" ->
                 IF i <= Len(s) /\ ((s[i] \in h.s) # h.neg)
                 THEN reGo(rest, s, i + 1, g) ELSE << >>
          [] h.t = "bol" -> IF i = 1 THEN reGo(rest, s, i, g) ELSE << >>
          [] h.t = "eol" ->
                 IF i = Len(s) + 1 \/ (i = Len(s) /\ s[i] = "\n")
                 THEN reGo(rest, s, i, g) ELSE << >>
          [] h.t = "seq" -> reGo(h.a \o rest, s, i, g)
          [] h.t = "alt" ->
                 IF h.a = << >> THEN << >>
                 ELSE LET first == reGo(<<Head(h.a)>> \o rest, s, i, g)
                      IN  IF first # << >> THEN first
                          ELSE reGo(<<Alt(Tail(h.a))>> \o rest, s, i, g)
          [] h.t = "rep" /\ h.r.t = "set" ->
                 LET n == runLength(h.r, s, i)
                     top == IF n > h.hi THEN h.hi ELSE n
                 IN  IF top < h.lo THEN << >>
                     ELSE reRun(rest, s, i, g, h,
                                IF h.lazy THEN h.lo ELSE top)
          [] h.t = "rep" /\ h.r.t # "set" ->
                 LET again == [h EXCEPT !.lo = IF h.lo > 0 THEN h.lo - 1 ELSE 0,
                                        !.hi = h.hi - 1]
                     more == IF h.hi > 0
                             THEN reGo(<<h.r, [t |-> "progress", i |-> i],
                                         again>> \o rest, s, i, g)
                             ELSE << >>
                     stop == IF h.lo <= 0 THEN reGo(rest, s, i, g) ELSE << >>
                 IN  IF h.lazy
                     THEN (IF stop # << >> THEN stop ELSE more)
                     ELSE (IF more # << >> THEN more ELSE stop)
          [] h.t = "progress" ->
                 IF i > h.i THEN reGo(rest, s, i, g) ELSE << >>
          [] h.t = "grp" ->
                 reGo(<<[t |-> "open"], h.r, [t |-> "close"]>> \o rest, s, i, g)
          [] h.t = "open" -> reGo(rest, s, i, <<i, g[2]>>)
          [] h.t = "close" -> reGo(rest, s, i, <<g[1], i>>)

\* a repeat h of a character class that takes c characters from position i,
\* and on failure one fewer (greedy) or one more (lazy)
reRun(rest, s, i, g, h, c) ==
    LET n == runLength(h.r, s, i)
        top == IF n > h.hi THEN h.hi ELSE n
        here == reGo(rest, s, i + c, g)
    IN  IF here # << >> THEN here
        ELSE IF h.lazy
        THEN (IF c < top THEN reRun(rest, s, i, g, h, c + 1) ELSE << >>)
        ELSE (IF c > h.lo THEN reRun(rest, s, i, g, h, c - 1) ELSE << >>)

\* the first match of r in s that starts at position i or later, as
\* << <<start, end, group 1>> >>, or << >>
RECURSIVE reSearchFrom(_, _, _)
reSearchFrom(r, s, i) ==
    IF i > Len(s) + 1 THEN << >>
    ELSE LET m == reGo(<<r>>, s, i, NoGroup)
         IN  IF m # << >> THEN << <<i, m[1], m[2]>> >>
             ELSE reSearchFrom(r, s, i + 1)

\* re.search(r, s) as a truth value
re_search(r, s) == reSearchFrom(r, s, 1) # << >>

\* m.group(1) of the match m of a search in s
group1(s, m) == SubSeq(s, m[1][3][1], m[1][3][2] - 1)

\* m.group(1) of re.search(r, s), which must have matched
re_group1(r, s) == group1(s, reSearchFrom(r, s, 1))

\* re.sub(r, repl, s) from position i of s on; with useGroup the replacement
\* is repl followed by group 1.  reSubAt is given the first match m from i on.
RECURSIVE reSubFrom(_, _, _, _, _)
RECURSIVE reSubAt(_, _, _, _, _, _)
reSubFrom(r, repl, useGroup, s, i) ==
    IF i > Len(s) THEN << >>
    ELSE reSubAt(r, repl, useGroup, s, i, reSearchFrom(r, s, i))

reSubAt(r, repl, useGroup, s, i, m) ==
    IF m = << >> THEN SubSeq(s, i, Len(s))
    ELSE SubSeq(s, i, m[1][1] - 1)
         \o repl \o (IF useGroup THEN group1(s, m) ELSE << >>)
         \o (IF m[1][2] > m[1][1]
             THEN reSubFrom(r, repl, useGroup, s, m[1][2])
             ELSE (IF m[1][1] <= Len(s) THEN <<s[m[1][1]]>> ELSE << >>)
                  \o reSubFrom(r, repl, useGroup, s, m[1][1] + 1))

re_sub(r, repl, s) == reSubFrom(r, repl, FALSE, s, 1)
re_sub_group1(r, repl, s) == reSubFrom(r, repl, TRUE, s, 1)


(***************************************************************************)
(* Texts of the program.                                                   *)
(***************************************************************************)
NL == "\n"
Q == "\""
kwClass == <<"c", "l", "a", "s", "s">>
kwStruct == <<"s", "t", "r", "u", "c", "t">>
kwPublic == <<"p", "u", "b", "l", "i", "c", ":">>
kwProtected == <<"p", "r", "o", "t", "e", "c", "t", "e", "d", ":">>
kwPrivate == <<"p", "r", "i", "v", "a", "t", "e", ":">>
kwInclude == <<"#", "i", "n", "c", "l", "u", "d", "e">>
kwSuppress == <<"p", "a", "r", "a", "s", "o", "f", "t", "-",
                "s", "u", "p", "p", "r", "e", "s", "s">>
LsstDm == <<"L", "s", "s", "t", "D", "m", "-">>

\* str.split(): the maximal runs of non-whitespace characters
RECURSIVE split(_)
split(s) ==
    IF s = << >> THEN << >>
    ELSE IF Head(s) \in SpaceChar THEN split(Tail(s))
    ELSE LET n == CHOOSE k \in 1..Len(s) :
                     /\ \A j \in 1..k : s[j] \notin SpaceChar
                     /\ (k = Len(s) \/ s[k + 1] \in SpaceChar)
         IN  <<SubSeq(s, 1, n)>> \o split(SubSeq(s, n + 1, Len(s)))

(***************************************************************************)
(* parseLines: the regular expressions of the comment and string removal.  *)
(***************************************************************************)
rCommentOpen == Lit(<<"/", "*">>)                              \* "\/\*"
rCommentClose == Lit(<<"*", "/">>)                             \* "\*\/"
rCommentSpan == Cat(<<Ch("/"), Ch("*"), LazyPlus(Dot), Ch("*"), Ch("/")>>)
                                                               \* "\/\*.+?\*\/"
rCommentToEnd == Cat(<<Ch("/"), Ch("*"), Star(Dot), Eol>>)     \* "\/\*.*$"
rCommentHead == Cat(<<Bol, Star(Dot), Ch("*"), Ch("/")>>)      \* "^.*\*\/"
rDoxygen == Cat(<<Ch("/"), Ch("/"), Ch("/"), Ch("<"), Star(Dot), Eol>>)
                                                               \* "\/\/\/<.*$"
rLineComment == Cat(<<Ch("/"), Plus(Ch("/")), Star(Dot), Eol>>)
                                                               \* "\/\/+.*$"
rInclude == Cat(<<Bol, Lit(kwInclude)>>)                       \* "^\#include"
rString == Cat(<<Ch(Q), Star(NotIn({Q})), Ch(Q)>>)             \* "\"[^\"]*\""
rPyDoc == Lit(<<Q, Q, Q>>)                                     \* "\"\"\""
rPyDocSpan == Cat(<<Ch(Q), Ch(Q), Ch(Q), LazyStar(Dot), Ch(Q), Ch(Q), Ch(Q)>>)
                                                               \* "\"\"\".*?\"\"\""
rPyDocToEnd == Cat(<<Ch(Q), Ch(Q), Ch(Q), Star(Dot), Eol>>)    \* "\"\"\".*$"
rPyDocAny == Cat(<<Star(Dot), Ch(Q), Ch(Q), Ch(Q)>>)           \* ".*\"\"\""
rPyDocHead == Cat(<<Bol, Star(Dot), Ch(Q), Ch(Q), Ch(Q)>>)     \* "^.*\"\"\""
rEscapedQuote == Lit(<<"\\", Q>>)                              \* "\\\\\""
rPyComment == Cat(<<Ch("#"), Star(Dot), Eol>>)                 \* "#.*$"
rSuppress == Cat(<<Lit(kwSuppress), S1, Grp(Plus(NotIn({Q})))>>)
                                              \* "parasoft-suppress\s+([^\"]+)"

CTypes == {<<"c">>, <<"c", "c">>, <<"h">>}
PyTypes == {<<"p", "y">>}

\* The loop body of parseLines works on p: the text stripped so far and the
\* flags inComment and inPyDoc.
\* a comment opens on the line: it is cut out up to its end or to the end of
\* the line
commentOpen(p) ==
    IF re_search(rCommentOpen, p.stripped) /\ ~p.inComment
    THEN IF re_search(rCommentClose, p.stripped)
         THEN [p EXCEPT !.stripped = re_sub(rCommentSpan, << >>, p.stripped)]
         ELSE [p EXCEPT !.stripped = re_sub(rCommentToEnd, << >>, p.stripped),
                        !.inComment = TRUE]
    ELSE p

\* a closing of the comment that cuts the text and leaves the comment open
commentCloseStaysOpen(p) ==
    IF re_search(rCommentClose, p.stripped) /\ p.inComment
    THEN [p EXCEPT !.stripped = re_sub(rCommentHead, << >>, p.stripped)]
    ELSE p

\* the open comment closes on the line
commentClose(p) ==
    IF re_search(rCommentClose, p.stripped) /\ p.inComment
    THEN [p EXCEPT !.stripped = re_sub(rCommentHead, << >>, p.stripped),
                   !.inComment = FALSE]
    ELSE p

\* a line inside a comment that keeps its text
commentInsideKeeps(p) == p

\* the line is inside a comment
commentInside(p) == IF p.inComment THEN [p EXCEPT !.stripped = << >>] ELSE p

\* the comments that run to the end of the line
commentLine(p) ==
    [p EXCEPT !.stripped =
        re_sub(rLineComment, << >>, re_sub(rDoxygen, << >>, p.stripped))]

\* the strings, but not the file names of #include
stringsC(p) ==
    IF ~re_search(rInclude, p.stripped)
    THEN [p EXCEPT !.stripped = re_sub(rString, <<Q, Q>>, p.stripped)]
    ELSE p

\* the C/C++ branch of the loop body of parseLines
stripC(p) == stringsC(commentLine(commentInside(commentClose(commentOpen(p)))))

\* a doc string opens on the line
pyDocOpen(p) ==
    IF re_search(rPyDoc, p.stripped) /\ ~p.inPyDoc
    THEN IF re_search(rPyDocSpan, p.stripped)
         THEN [p EXCEPT !.stripped = re_sub(rPyDocSpan, << >>, p.stripped)]
         ELSE [p EXCEPT !.stripped = re_sub(rPyDocToEnd, << >>, p.stripped),
                        !.inPyDoc = TRUE]
    ELSE p

\* the open doc string closes on the line
pyDocClose(p) ==
    IF re_search(rPyDocAny, p.stripped) /\ p.inPyDoc
    THEN [p EXCEPT !.stripped = re_sub(rPyDocHead, << >>, p.stripped),
                   !.inPyDoc = FALSE]
    ELSE p

\* the line is inside a doc string
pyDocInside(p) == IF p.inPyDoc THEN [p EXCEPT !.stripped = << >>] ELSE p

\* the escaped quotes, the strings and the comments of python
stringsPy(p) ==
    [p EXCEPT !.stripped =
        re_sub(rPyComment, << >>,
               re_sub(rString, <<Q, Q>>,
                      re_sub(rEscapedQuote, << >>, p.stripped)))]

\* the python branch of the loop body of parseLines
stripPy(p) == stringsPy(pyDocInside(pyDocClose(pyDocOpen(p))))

\* a loop body that drops the last character of the line and strips nothing
parseLineChopped(raw, filetype, inComment, inPyDoc) ==
    [stripped |-> SubSeq(raw, 1, Len(raw) - 1),
     inComment |-> inComment, inPyDoc |-> inPyDoc]

\* the loop body of parseLines on the raw line
parseLine(raw, filetype, inComment, inPyDoc) ==
    LET p0 == [stripped |-> raw, inComment |-> inComment, inPyDoc |-> inPyDoc]
        p1 == IF filetype \in CTypes THEN stripC(p0) ELSE p0
    IN  IF filetype \in PyTypes THEN stripPy(p1) ELSE p1

\* the loop of parseLines on the first n of the texts: the stripped texts of
\* the Lines it has made and the flags inComment and inPyDoc after them
RECURSIVE parseLinesLoop(_, _, _)
parseLinesLoop(texts, filetype, n) ==
    IF n = 0
    THEN [stripped |-> << >>, inComment |-> FALSE, inPyDoc |-> FALSE]
    ELSE LET before == parseLinesLoop(texts, filetype, n - 1)
             p == parseLine(texts[n], filetype, before.inComment,
                            before.inPyDoc)
         IN  [stripped |-> Append(before.stripped, p.stripped),
              inComment |-> p.inComment, inPyDoc |-> p.inPyDoc]

\* line.suppress after the loop body of parseLines
suppressOf(raw) ==
    IF re_search(rSuppress, raw) THEN split(re_group1(rSuppress, raw))
    ELSE << >>

\* Line(raw, stripped) with its number set
Line(raw, stripped, number) ==
    [raw |-> raw, stripped |-> stripped, number |-> number,
     variableNames |-> << >>, functionNames |-> << >>,
     inClass |-> FALSE, inStruct |-> FALSE, inPublic |-> FALSE,
     inProtected |-> FALSE, inPrivate |-> FALSE,
     inNestedClass |-> FALSE, inNestedStruct |-> FALSE,
     className |-> << >>, structName |-> << >>, nNested |-> 0,
     suppress |-> suppressOf(raw)]

(***************************************************************************)
(* getFunctionNames.                                                       *)
(***************************************************************************)
Primitives ==
    << <<"i", "n", "t">>, <<"f", "l", "o", "a", "t">>,
       <<"d", "o", "u", "b", "l", "e">>,
       <<"u", "n", "s", "i", "g", "n", "e", "d", " ", "i", "n", "t">>,
       <<"c", "h", "a", "r">>, <<"l", "o", "n", "g">>,
       <<"l", "o", "n", "g", " ", "l", "o", "n", "g">>,
       <<"u", "n", "s", "i", "g", "n", "e", "d", " ", "s", "h", "o", "r", "t">>,
       <<"u", "n", "s", "i", "g", "n", "e", "d", " ", "s", "h", "o", "r", "t",
         " ", "i", "n", "t">>,
       <<"b", "o", "o", "l">> >>

\* getPrimitivesOr(): "int|float|...|bool"
getPrimitivesOr == [k \in 1..Len(Primitives) |-> Lit(Primitives[k])]

\* "(?:\s+[\&\*]\s*|\s*[\&\*]\s+|\s+)"
rPointRefF == Alt(<<Cat(<<S1, In({"&", "*"}), S0>>),
                    Cat(<<S0, In({"&", "*"}), S1>>), S1>>)
\* possLineEnd: "\)\s*\{|\,|\)\s*\{\s*\};|"
possLineEnd ==
    Alt(<<Cat(<<Ch(")"), S0, Ch("{")>>), Ch(","),
          Cat(<<Ch(")"), S0, Ch("{"), S0, Ch("}"), Ch(";")>>), Cat(<< >>)>>)
rFunction ==
    Cat(<<Bol, S0, Opt(Cat(<<Lit(<<"i", "n", "l", "i", "n", "e">>), S1>>)),
          Alt(getPrimitivesOr \o <<Cat(<<In(Upper), W1>>)>>),
          Opt(Cat(<<S1, Lit(<<"c", "o", "n", "s", "t">>)>>)),
          rPointRefF,
          Grp(Cat(<<In(WordChar), Star(In(WordChar))>>)),
          Ch("("), Star(Dot), possLineEnd, S0, Eol>>)

getFunctionNames(line) ==
    IF re_search(rFunction, line) THEN <<re_group1(rFunction, line)>>
    ELSE << >>

(***************************************************************************)
(* getVariableNames, up to the substitution whose pattern is built from    *)
(* the text of the line.                                                   *)
(***************************************************************************)
\* "const(\s*=\s*0)?"
rConst == Cat(<<Lit(<<"c", "o", "n", "s", "t">>),
                Opt(Cat(<<S0, Ch("="), S0, Ch("0")>>))>>)
rStatic == Lit(<<"s", "t", "a", "t", "i", "c">>)
rTypename == Lit(<<"t", "y", "p", "e", "n", "a", "m", "e">>)
rLeadSpace == Cat(<<Bol, S1>>)                                 \* "^\s+"
\* "\s*([\,\=\+\-\/;\(\)\?\:\>\<])\s*"
rPunct == Cat(<<S0, Grp(In({",", "=", "+", "-", "/", ";", "(", ")", "?",
                            ":", ">", "<"})), S0>>)
NotOpen == NotIn({"("})
NotClose == NotIn({")"})
\* "[^\=]+\([^\)]+\,[^\)]+\)"
rArgList == Cat(<<Plus(NotIn({"="})), Ch("("), Plus(NotClose), Ch(","),
                  Plus(NotClose), Ch(")")>>)
rHeadToOpen == Cat(<<Bol, Plus(NotOpen), Ch("(")>>)            \* "^[^\(]+\("
rToOpen == Cat(<<Plus(NotOpen), Ch("(")>>)                     \* "[^\(]+\("
rCloseToEnd == Cat(<<Ch(")"), Star(NotClose), Eol>>)           \* "\)[^\)]*$"
\* "\([^\)]+\s[^\)]+\)"
rOneArg == Cat(<<Ch("("), Plus(NotClose), In(SpaceChar), Plus(NotClose),
                 Ch(")")>>)
\* "\(new\s[^\)]+\)"
rNew == Cat(<<Ch("("), Lit(<<"n", "e", "w">>), In(SpaceChar), Plus(NotClose),
              Ch(")")>>)
\* "\([^\)]+\)\s*\?\s*"
rTernary == Cat(<<Ch("("), Plus(NotClose), Ch(")"), S0, Ch("?"), S0>>)
\* "[^\(]+::[^\(]+\("
rScoped == Cat(<<Plus(NotOpen), Ch(":"), Ch(":"), Plus(NotOpen), Ch("(")>>)
rCloseRest == Cat(<<Ch(")"), Star(NotClose)>>)                 \* "\)[^\)]*"
\* "^[^\(]+\)\s*[;\{]?\s*$"
rContinuation == Cat(<<Bol, Plus(NotOpen), Ch(")"), S0,
                       Opt(In({";", "{"})), S0, Eol>>)
\* "\)\s*[;\{]?\s*$"
rContinuationEnd == Cat(<<Ch(")"), S0, Opt(In({";", "{"})), S0, Eol>>)
\* "[^:]:([^:].*)$"
rSingleColon == Cat(<<NotIn({":"}), Ch(":"),
                      Grp(Cat(<<NotIn({":"}), Star(Dot)>>)), Eol>>)
rParen == Grp(In({"(", ")"}))                                  \* "([\(\)])"

\* the line after the qualifiers and the whitespace have been removed
variableLine0(line) ==
    LET l1 == re_sub(rConst, << >>, line)
        l2 == re_sub(rStatic, << >>, l1)
        l3 == re_sub(rTypename, << >>, l2)
        l4 == re_sub(rLeadSpace, << >>, l3)
        l5 == re_sub(S1, <<" ">>, l4)
    IN  re_sub_group1(rPunct, << >>, l5)

\* the text after a scoped name and its opening parenthesis, cut at the
\* closing parenthesis if there is one
scopedArgs(t) ==
    IF re_search(rCloseRest, t) THEN re_sub(rCloseRest, << >>, t) ELSE t

\* the line l after the argument list of a function has been extracted
argumentList(l) ==
    IF re_search(rArgList, l)
    THEN re_sub(rCloseToEnd, << >>, re_sub(rHeadToOpen, << >>, l))
    ELSE IF /\ re_search(rOneArg, l)
            /\ ~re_search(rNew, l)
            /\ ~re_search(rTernary, l)
    THEN re_sub(rCloseToEnd, << >>, re_sub(rToOpen, << >>, l))
    ELSE IF re_search(rScoped, l)
    THEN scopedArgs(re_sub(rScoped, << >>, l))
    ELSE IF re_search(rContinuation, l)
    THEN re_sub(rContinuationEnd, << >>, l)
    ELSE l

variableLine1(line) == argumentList(variableLine0(line))

\* the pattern ":" + s + "$" of the substitution after a single colon in l
colonPattern(l) ==
    <<":">> \o re_sub_group1(rParen, <<"\\">>, re_group1(rSingleColon, l))
    \o <<"$">>

\* whether re compiles a pattern: a repeat operator may not follow a repeat
\* operator ("multiple repeat").  This is all that can go wrong in a pattern
\* made of the characters of LineChars.
reCompiles(p) ==
    \A k \in 1..(Len(p) - 1) :
        ~(p[k] \in {"*", "+"} /\ p[k + 1] \in {"*", "+"})

\* the substitution after a single colon in l raises re.error
colonRaises(l) == re_search(rSingleColon, l) /\ ~reCompiles(colonPattern(l))

\* getVariableNames raises re.error on this line
variableNamesRaises(line) == colonRaises(variableLine1(line))

(***************************************************************************)
(* getVariableNames: the candidates of the line and the names declared in  *)
(* them.                                                                   *)
(***************************************************************************)
\* re.compile on the text of a pattern made of characters, ".", "$", escaped
\* characters and repeats with "*" and "+": the items of the pattern
reAtom(t) ==
    IF t[1] = "\\" /\ Len(t) >= 2 THEN Ch(t[2])
    ELSE IF t[1] = "." THEN Dot
    ELSE IF t[1] = "$" THEN Eol
    ELSE Ch(t[1])
reAtomLen(t) == IF t[1] = "\\" /\ Len(t) >= 2 THEN 2 ELSE 1
reStarred(t) == Len(t) > reAtomLen(t) /\ t[reAtomLen(t) + 1] = "*"
rePlussed(t) == Len(t) > reAtomLen(t) /\ t[reAtomLen(t) + 1] = "+"
RECURSIVE rePattern(_)
rePattern(t) ==
    IF t = << >> THEN << >>
    ELSE IF reStarred(t)
    THEN <<Star(reAtom(t))>>
         \o rePattern(SubSeq(t, reAtomLen(t) + 2, Len(t)))
    ELSE IF rePlussed(t)
    THEN <<Plus(reAtom(t))>>
         \o rePattern(SubSeq(t, reAtomLen(t) + 2, Len(t)))
    ELSE <<reAtom(t)>> \o rePattern(SubSeq(t, reAtomLen(t) + 1, Len(t)))

\* line.split(","): the pieces of s between the occurrences of c
RECURSIVE splitOn(_, _)
splitOn(s, c) ==
    IF \A k \in 1..Len(s) : s[k] # c THEN <<s>>
    ELSE <<SubSeq(s, 1, Min({k \in 1..Len(s) : s[k] = c}) - 1)>>
         \o splitOn(SubSeq(s, Min({k \in 1..Len(s) : s[k] = c}) + 1, Len(s)),
                    c)

\* variable.strip()
RECURSIVE strip(_)
strip(s) ==
    IF s = << >> THEN s
    ELSE IF s[1] \in SpaceChar THEN strip(Tail(s))
    ELSE IF s[Len(s)] \in SpaceChar THEN strip(SubSeq(s, 1, Len(s) - 1))
    ELSE s

\* the lists a loop appends to: the lists of ls, one after the other
RECURSIVE extend(_)
extend(ls) == IF ls = << >> THEN << >> ELSE Head(ls) \o extend(Tail(ls))

\* the line after the substitution of what follows a single colon
colonStrip(l) ==
    IF re_search(rSingleColon, l)
    THEN re_sub(Cat(rePattern(colonPattern(l))), << >>, l)
    ELSE l

\* rawList: the candidates for a declaration in the line l0 that is left
\* after the qualifiers and the whitespace have been removed, l1 being the
\* line after the extraction of the argument list
rawListOf(l0, l1) ==
    IF re_search(rSingleColon, l1) THEN <<colonStrip(l1)>>
    ELSE IF re_search(rArgList, l0) THEN splitOn(l1, ",")
    ELSE <<l1>>
rawList(l0) == rawListOf(l0, argumentList(l0))

\* "^\s*return\s"
rReturn == Cat(<<Bol, S0, Lit(<<"r", "e", "t", "u", "r", "n">>),
                 In(SpaceChar)>>)
\* getUserTypeRegex(): "[A-Z]\w+(?:\<\w+\>)?"
getUserTypeRegex ==
    Cat(<<In(Upper), W1, Opt(Cat(<<Ch("<"), W1, Ch(">")>>))>>)
\* base: "^(?:" + stypes + ")"
base == Cat(<<Bol, Alt(getPrimitivesOr \o <<getUserTypeRegex>>)>>)
\* pointRef: "(?:\s+[\&\*]\s*|[\&\*]\s+|\s+)"
pointRef == Alt(<<Cat(<<S1, In({"&", "*"}), S0>>),
                  Cat(<<In({"&", "*"}), S1>>), S1>>)
\* plainVar: "\w[\w\d]*"
plainVar == Cat(<<In(WordChar), Star(In(WordChar))>>)
\* "[^\s]\s*\,\s*[^\s]"
rCommas == Cat(<<NotIn(SpaceChar), S0, Ch(","), S0, NotIn(SpaceChar)>>)
\* "(" + plainVar + "(?:" + assignedVar + "|" + instantVar + "|" + arrayVar
\* + ")?)$", with assignedVar "\=[^\s\,]+", instantVar "\s?\([^\)]+\)" and
\* arrayVar "\s?\[[^\]]+\]"
rDeclared ==
    Cat(<<Grp(Cat(<<plainVar,
                    Opt(Alt(<<Cat(<<Ch("="),
                                    Plus(NotIn(SpaceChar \cup {","}))>>),
                              Cat(<<Opt(In(SpaceChar)), Ch("("),
                                    Plus(NotClose), Ch(")")>>),
                              Cat(<<Opt(In(SpaceChar)), Ch("["),
                                    Plus(NotIn({"]"})), Ch("]")>>)>>))>>)),
          Eol>>)
rSemiTail == Cat(<<Ch(";"), S0, Eol>>)                         \* ";\s*$"
rAssigned == Cat(<<Ch("="), Star(Dot), Eol>>)                  \* "=.*$"
rInstance == Cat(<<Ch("("), Star(NotClose), Ch(")")>>)         \* "\([^\)]*\)"

\* the variables of one piece of a candidate: the piece without its type and
\* its ";" ends with a name
declared(t) ==
    IF re_search(rDeclared, t) THEN <<re_group1(rDeclared, t)>> ELSE << >>
variablesOfSplit(rawSplit) ==
    declared(re_sub(rSemiTail, << >>, re_sub(base, << >>, rawSplit)))

\* the variable without its assignment and its arguments
bareVariable(variable) ==
    re_sub(rInstance, << >>, re_sub(rAssigned, << >>, variable))

\* the name that a variable of a candidate adds to variableList, if any: no
\* name for "\n" and for a variable in a template list of the line; bare is
\* the variable without its assignment and its arguments
nameOf(bare, originalLine) ==
    IF re_search(Cat(<<Ch("<"), Star(NotIn({">"}))>> \o rePattern(bare)
                     \o <<Star(NotIn({"<"})), Ch(">")>>), originalLine)
    THEN << >>
    ELSE <<strip(bare)>>
variableName(variable, originalLine) ==
    IF variable = <<NL>> THEN << >>
    ELSE nameOf(bareVariable(variable), originalLine)

\* the pieces of the candidate raw
rawSplitList(raw) ==
    IF re_search(rCommas, raw) THEN splitOn(raw, ",") ELSE <<raw>>

\* the variables of the pieces of a candidate
variables(pieces) ==
    extend([k \in 1..Len(pieces) |-> variablesOfSplit(pieces[k])])

\* the names that the variables of a candidate add to variableList
variableNamesOf(vs, originalLine) ==
    extend([k \in 1..Len(vs) |-> variableName(vs[k], originalLine)])

\* the names that the candidate raw adds to variableList
variablesOfRaw(raw, originalLine) ==
    IF re_search(rReturn, raw) THEN << >>
    ELSE IF ~re_search(Cat(<<base, pointRef, plainVar>>), raw) THEN << >>
    ELSE variableNamesOf(variables(rawSplitList(raw)), originalLine)

\* variableList: the names of the candidates
variableList(candidates, originalLine) ==
    extend([k \in 1..Len(candidates) |->
               variablesOfRaw(candidates[k], originalLine)])

\* getVariableNames(line) with the default types, on a line on which it does
\* not raise
getVariableNames(line) == variableList(rawList(variableLine0(line)), line)

(***************************************************************************)
(* flagLines.                                                              *)
(***************************************************************************)
\* "^\s*class\s+(\w+)\s*:?\s+"
rClass == Cat(<<Bol, S0, Lit(kwClass), S1, Grp(W1), S0, Opt(Ch(":")), S1>>)
\* "^\s*struct\s+(\w+)\s*:?\s+"
rStruct == Cat(<<Bol, S0, Lit(kwStruct), S1, Grp(W1), S0, Opt(Ch(":")), S1>>)
rPublic == Cat(<<Bol, S0, Lit(kwPublic)>>)                     \* "^\s*public:"
rProtected == Cat(<<Bol, S0, Lit(kwProtected)>>)               \* "^\s*protected:"
rPrivate == Cat(<<Bol, S0, Lit(kwPrivate)>>)                   \* "^\s*private:"
rClassEnd == Cat(<<Bol, Ch("}"), Ch(";"), S0>>)                \* "^};\s*"
rOpenBrace == Ch("{")                                          \* "\{"
rCloseBrace == Ch("}")                                         \* "\}"

\* the local variables of flagLines before the first line
flagInit ==
    [inClass |-> FALSE, inStruct |-> FALSE, inPublic |-> FALSE,
     inProtected |-> FALSE, inPrivate |-> FALSE,
     inNestedClass |-> FALSE, inNestedStruct |-> FALSE,
     nNested |-> 0, className |-> << >>, structName |-> << >>]

\* an assignment of the access flags that never clears a flag
SetAccessSticky(f, pub, pro, pri) ==
    [f EXCEPT !.inPublic = f.inPublic \/ pub,
              !.inProtected = f.inProtected \/ pro,
              !.inPrivate = f.inPrivate \/ pri]

SetAccess(f, pub, pro, pri) ==
    [f EXCEPT !.inPublic = pub, !.inProtected = pro, !.inPrivate = pri]

\* a class line that never marks the class as nested
flagClassNeverNested(f, s) ==
    IF re_search(rClass, s)
    THEN [SetAccess(f, FALSE, FALSE, FALSE) EXCEPT
             !.className = re_group1(rClass, s),
             !.inClass = TRUE, !.inStruct = FALSE]
    ELSE f

\* The loop body of flagLines works on f, its local variables, and on s, the
\* stripped text of the line.
\* class information
flagClass(f, s) ==
    IF re_search(rClass, s)
    THEN [SetAccess(f, FALSE, FALSE, FALSE) EXCEPT
             !.className = re_group1(rClass, s),
             !.inNestedClass = (f.inClass \/ f.inStruct) \/ f.inNestedClass,
             !.inClass = TRUE, !.inStruct = FALSE]
    ELSE f

\* a struct line that leaves inClass as it was
flagStructKeepsClass(f, s) ==
    IF re_search(rStruct, s)
    THEN [SetAccess(f, FALSE, FALSE, FALSE) EXCEPT
             !.structName = re_group1(rStruct, s),
             !.inNestedStruct = (f.inClass \/ f.inStruct) \/ f.inNestedStruct,
             !.inStruct = TRUE]
    ELSE f

\* struct information
flagStruct(f, s) ==
    IF re_search(rStruct, s)
    THEN [SetAccess(f, FALSE, FALSE, FALSE) EXCEPT
             !.structName = re_group1(rStruct, s),
             !.inNestedStruct = (f.inClass \/ f.inStruct) \/ f.inNestedStruct,
             !.inClass = FALSE, !.inStruct = TRUE]
    ELSE f

\* a test that takes a nested class or struct for the body itself
justInClassStructAnyDepth(f) == f.inClass \/ f.inStruct

justInClassStruct(f) ==
    (f.inClass \/ f.inStruct) /\ ~(f.inNestedClass \/ f.inNestedStruct)

\* the access specifiers and the end of the class or struct; just is
\* justInClassStruct as it was before the first of them
flagPublic(f, s, just) ==
    IF just /\ re_search(rPublic, s)
    THEN SetAccess(f, TRUE, FALSE, FALSE) ELSE f
flagProtected(f, s, just) ==
    IF just /\ re_search(rProtected, s)
    THEN SetAccess(f, FALSE, TRUE, FALSE) ELSE f
flagPrivate(f, s, just) ==
    IF just /\ re_search(rPrivate, s)
    THEN SetAccess(f, FALSE, FALSE, TRUE) ELSE f
\* a "};" that clears the access flags only and stays in the class or struct
flagClassEndKeepsBody(f, s, just) ==
    IF just /\ re_search(rClassEnd, s)
    THEN SetAccess(f, FALSE, FALSE, FALSE)
    ELSE f

flagClassEnd(f, s, just) ==
    IF just /\ re_search(rClassEnd, s)
    THEN [SetAccess(f, FALSE, FALSE, FALSE) EXCEPT
             !.inClass = FALSE, !.inStruct = FALSE]
    ELSE f
flagAccess(f, s) ==
    flagClassEnd(
        flagPrivate(
            flagProtected(
                flagPublic(f, s, justInClassStruct(f)),
                s, justInClassStruct(f)),
            s, justInClassStruct(f)),
        s, justInClassStruct(f))

\* an end of a nested class or struct that leaves the enclosing one as well
flagNestedEndLeaves(f, s) ==
    IF re_search(rClassEnd, s)
    THEN [f EXCEPT !.inNestedClass = FALSE, !.inNestedStruct = FALSE,
                   !.inClass = FALSE, !.inStruct = FALSE]
    ELSE f

\* the end of a nested class or struct
flagNestedEnd(f, s) ==
    IF re_search(rClassEnd, s)
    THEN [f EXCEPT !.inNestedClass = FALSE, !.inNestedStruct = FALSE]
    ELSE f

\* the nesting depth
flagBraces(f, s) ==
    [f EXCEPT !.nNested = @ + (IF re_search(rOpenBrace, s) THEN 1 ELSE 0)
                            - (IF re_search(rCloseBrace, s) THEN 1 ELSE 0)]

\* the local variables of flagLines after the body of the loop has run on a
\* line whose stripped text is s
flagLocals(f, s) ==
    flagBraces(flagNestedEnd(flagAccess(flagStruct(flagClass(f, s), s), s),
                             s), s)

\* a flagLines that stamps the depth a line had before its own braces
flagLineDepthBefore(line, f, raises) ==
    [line EXCEPT
        !.inClass = f.inClass, !.inStruct = f.inStruct,
        !.inPublic = f.inPublic, !.inProtected = f.inProtected,
        !.inPrivate = f.inPrivate,
        !.inNestedClass = f.inNestedClass,
        !.inNestedStruct = f.inNestedStruct,
        !.className = IF f.inClass THEN f.className ELSE line.className,
        !.structName = IF f.inStruct THEN f.structName ELSE line.structName,
        !.nNested = f.nNested
                    - (IF re_search(rOpenBrace, line.stripped) THEN 1 ELSE 0)
                    + (IF re_search(rCloseBrace, line.stripped) THEN 1 ELSE 0),
        !.variableNames = IF raises THEN line.variableNames
                          ELSE getVariableNames(line.stripped),
        !.functionNames = IF raises THEN line.functionNames
                          ELSE getFunctionNames(line.stripped)]

\* the line as flagLines stamps it, f being the locals after the loop body;
\* its names are set unless getVariableNames raises
flagLine(line, f, raises) ==
    [line EXCEPT
        !.inClass = f.inClass, !.inStruct = f.inStruct,
        !.inPublic = f.inPublic, !.inProtected = f.inProtected,
        !.inPrivate = f.inPrivate,
        !.inNestedClass = f.inNestedClass,
        !.inNestedStruct = f.inNestedStruct,
        !.className = IF f.inClass THEN f.className ELSE line.className,
        !.structName = IF f.inStruct THEN f.structName ELSE line.structName,
        !.nNested = f.nNested,
        !.variableNames = IF raises THEN line.variableNames
                          ELSE getVariableNames(line.stripped),
        !.functionNames = IF raises THEN line.functionNames
                          ELSE getFunctionNames(line.stripped)]

(***************************************************************************)
(* Violation and the rules (class Test and its subclasses).                *)
(***************************************************************************)
Violation(test, line, extraComment) ==
    [id |-> test.id, severity |-> test.severity, lineNumber |-> line.number,
     extraComment |-> extraComment]

\* what a call returns: its value, or the exception it raised
Return(v) == [raised |-> "none", value |-> v]
Raise(e) == [raised |-> e, value |-> << >>]

\* lines[k] of Python for an index k counted from 0; a negative index counts
\* from the end.  The index must be in range.
InRange(lines, k) == k < Len(lines) /\ k >= 0 - Len(lines)
Item(lines, k) == IF k >= 0 THEN lines[k + 1] ELSE lines[Len(lines) + k + 1]

\* a rule of a single regular expression that searches the raw text
TestApplyRaw(test, lines, filetype) ==
    IF filetype \in test.typeList
    THEN LET hits == SelectSeq(lines,
                               LAMBDA l : re_search(test.regex, l.raw))
         IN  Return([k \in 1..Len(hits) |-> Violation(test, hits[k], << >>)])
    ELSE Return(<< >>)

\* Test.apply: the rule of a single regular expression
TestApply(test, lines, filetype) ==
    IF filetype \in test.typeList
    THEN LET hits == SelectSeq(lines,
                               LAMBDA l : re_search(test.regex, l.stripped))
         IN  Return([k \in 1..Len(hits) |-> Violation(test, hits[k], << >>)])
    ELSE Return(<< >>)

\* 3-10
TestLeadingUnderscore ==
    [id |-> <<"3", "-", "1", "0">>, severity |-> 1,
     apply |-> "TestLeadingUnderscore", typeList |-> CTypes,
     regex |-> Cat(<< >>)]

\* a rule 3-10 that looks at every line of a class
leadingUnderscoreInClass(line) == line.inClass

\* the lines that rule 3-10 looks at
leadingUnderscoreLine(line) == line.inPrivate

\* isArg: the name tmp is in parentheses or before a comma that ends the text
isArg(tmp, stripped) ==
    \/ re_search(Cat(<<Ch("("), Star(NotClose)>> \o rePattern(tmp)
                     \o <<Star(NotClose), Ch(")"), Eol>>), stripped)
    \/ re_search(Cat(<<Ch("("), Star(NotClose)>> \o rePattern(tmp)
                     \o <<Star(NotClose), Eol>>), stripped)
    \/ re_search(Cat(<<Bol, Star(NotClose)>> \o rePattern(tmp)
                     \o <<Star(NotClose), Ch(")")>>), stripped)
    \/ re_search(Cat(rePattern(tmp) \o <<Star(Dot), Ch(","), S0, Eol>>),
                 stripped)

\* the violation of the variable, tmp being the variable without the
\* characters of a pointer or a reference
variableViolation(test, line, variable, tmp) ==
    IF re_search(Cat(<<Bol, NotIn({"_"})>>), tmp) /\ ~isArg(tmp, line.stripped)
    THEN <<Violation(test, line, variable)>>
    ELSE << >>

\* the violation of the function
functionViolation(test, line, functionName) ==
    IF ~re_search(Cat(<<Bol, Ch("_")>>), functionName)
    THEN <<Violation(test, line,
                     <<"M", "i", "s", "s", "i", "n", "g", " ", "l", "e", "a",
                       "d", "i", "n", "g", " ", "u", "n", "d", "e", "r", "s",
                       "c", "o", "r", "e">>)>>
    ELSE << >>

\* the violations of one line
leadingUnderscore(test, line) ==
    IF leadingUnderscoreLine(line)
    THEN extend([k \in 1..Len(line.variableNames) |->
                    variableViolation(test, line, line.variableNames[k],
                        re_sub(Cat(<<S0, In({"*", "&"}), S0>>), << >>,
                               line.variableNames[k]))])
         \o extend([k \in 1..Len(line.functionNames) |->
                       functionViolation(test, line, line.functionNames[k])])
    ELSE << >>

TestLeadingUnderscoreApply(test, lines, filetype) ==
    IF filetype \in test.typeList
    THEN Return(extend([k \in 1..Len(lines) |->
                           leadingUnderscore(test, lines[k])]))
    ELSE Return(<< >>)

\* 4-1a: "^//\s+-\*- (?:LSST-C|lsst-c)\+\+ -\*-"
rEmacsHeader ==
    Cat(<<Bol, Ch("/"), Ch("/"), S1, Lit(<<"-", "*", "-", " ">>),
          Alt(<<Lit(<<"L", "S", "S", "T", "-", "C">>),
                Lit(<<"l", "s", "s", "t", "-", "c">>)>>),
          Lit(<<"+", "+", " ", "-", "*", "-">>)>>)
TestEmacsHeader ==
    [id |-> <<"4", "-", "1", "a">>, severity |-> 1, apply |-> "TestEmacsHeader",
     typeList |-> CTypes, regex |-> Cat(<< >>)]

\* a rule 4-1a that looks for the marker in the stripped text of the line
TestEmacsHeaderApplyStripped(test, lines, filetype) ==
    IF filetype \in test.typeList
    THEN IF ~InRange(lines, 0) THEN Raise("IndexError")
         ELSE IF ~re_search(rEmacsHeader, Item(lines, 0).stripped)
         THEN Return(<<Violation(test, Item(lines, 0), << >>)>>)
         ELSE Return(<< >>)
    ELSE Return(<< >>)

TestEmacsHeaderApply(test, lines, filetype) ==
    IF filetype \in test.typeList
    THEN IF ~InRange(lines, 0) THEN Raise("IndexError")
         ELSE IF ~re_search(rEmacsHeader, Item(lines, 0).raw)
         THEN Return(<<Violation(test, Item(lines, 0), << >>)>>)
         ELSE Return(<< >>)
    ELSE Return(<< >>)

\* The rules 5-17 and 5-28 follow a region of braces with two locals: the
\* flag of the region (inSwitch, inDestructor) and the counter nNested.  The
\* locals after a line whose stripped text is s, rStart being the regular
\* expression of the line that opens the region
regionStart(st, rStart, s) ==
    IF re_search(rStart, s) THEN [inRegion |-> TRUE, nNested |-> 0] ELSE st
regionBraces(st, s) ==
    [st EXCEPT !.nNested = @ + (IF re_search(rOpenBrace, s) THEN 1 ELSE 0)
                             - (IF re_search(rCloseBrace, s) THEN 1 ELSE 0)]
regionEnd(st, s) ==
    IF re_search(rCloseBrace, s) /\ st.inRegion /\ st.nNested = 0
    THEN [st EXCEPT !.inRegion = FALSE]
    ELSE st
regionStep(st, rStart, s) ==
    regionEnd(regionBraces(regionStart(st, rStart, s), s), s)

\* the locals of the region after the first n lines
RECURSIVE regionAfter(_, _, _)
regionAfter(rStart, lines, n) ==
    IF n = 0 THEN [inRegion |-> FALSE, nNested |-> 0]
    ELSE regionStep(regionAfter(rStart, lines, n - 1), rStart,
                    lines[n].stripped)

\* 5-17
rSwitch == Cat(<<Bol, S0, Lit(<<"s", "w", "i", "t", "c", "h">>)>>)
                                                               \* "^\s*switch"
rBreak == Cat(<<Bol, S0, Lit(<<"b", "r", "e", "a", "k", ";">>)>>)
                                                               \* "^\s*break;"
rContinue ==
    Cat(<<Bol, S0, Lit(<<"c", "o", "n", "t", "i", "n", "u", "e", ";">>)>>)
                                                               \* "^\s*continue;"
usedBreak == <<"u", "s", "e", "d", " ", "'", "b", "r", "e", "a", "k", "'">>
usedContinue ==
    <<"u", "s", "e", "d", " ", "'", "c", "o", "n", "t", "i", "n", "u", "e",
      "'">>
TestBreakContinue ==
    [id |-> <<"5", "-", "1", "7">>, severity |-> 1,
     apply |-> "TestBreakContinue", typeList |-> CTypes,
     regex |-> Cat(<< >>)]

\* the violations of one line, inSwitch being the flag after the line
breakContinue(test, line, inSwitch) ==
    (IF re_search(rBreak, line.stripped) /\ ~inSwitch
     THEN <<Violation(test, line, usedBreak)>> ELSE << >>)
    \o (IF re_search(rContinue, line.stripped)
        THEN <<Violation(test, line, usedContinue)>> ELSE << >>)

TestBreakContinueApply(test, lines, filetype) ==
    IF filetype \in test.typeList
    THEN Return(extend([k \in 1..Len(lines) |->
                           breakContinue(test, lines[k],
                               regionAfter(rSwitch, lines, k).inRegion)]))
    ELSE Return(<< >>)

\* 5-28
\* "^\s*((?:\s*virtual\s*)\~|\w+::\~)"
rDestructor ==
    Cat(<<Bol, S0,
          Grp(Alt(<<Cat(<<S0, Lit(<<"v", "i", "r", "t", "u", "a", "l">>), S0,
                          Ch("~")>>),
                    Cat(<<W1, Ch(":"), Ch(":"), Ch("~")>>)>>))>>)
rThrow == Cat(<<Bol, S0, Lit(<<"t", "h", "r", "o", "w">>)>>)   \* "^\s*throw"
TestDestructorExceptions ==
    [id |-> <<"5", "-", "2", "8">>, severity |-> 1,
     apply |-> "TestDestructorExceptions", typeList |-> CTypes,
     regex |-> Cat(<< >>)]

\* the violations of one line, inDestructor being the flag after the line
destructorException(test, line, inDestructor) ==
    IF inDestructor /\ re_search(rThrow, line.stripped)
    THEN <<Violation(test, line, << >>)>> ELSE << >>

TestDestructorExceptionsApply(test, lines, filetype) ==
    IF filetype \in test.typeList
    THEN Return(extend([k \in 1..Len(lines) |->
                           destructorException(test, lines[k],
                               regionAfter(rDestructor, lines, k).inRegion)]))
    ELSE Return(<< >>)

\* getDefinitionLength
rSemiEnd == Cat(<<Ch(";"), S0, Eol>>)                          \* ";\s*$"
getDefinitionLength(lines, iLine) ==
    LET stops == {j \in iLine..Len(lines) :
                     \/ re_search(rSemiEnd, lines[j].stripped)
                     \/ re_search(rOpenBrace, lines[j].stripped)}
        isDefinition == /\ stops # {}
                        /\ ~re_search(rSemiEnd, lines[Min(stops)].stripped)
        closes == {j \in iLine..Len(lines) :
                      re_search(rCloseBrace, lines[j].stripped)}
    IN  IF ~isDefinition THEN Return(0 - 1)
        ELSE IF closes = {} THEN Raise("IndexError")
        ELSE Return((Min(closes) - 1) - iLine)

\* 4-4a
rTemplate == Cat(<<Bol, S0, Lit(<<"t", "e", "m", "p", "l", "a", "t", "e">>)>>)
                                                               \* "^\s*template"
TestNonTemplateInH ==
    [id |-> <<"4", "-", "4", "a">>, severity |-> 1,
     apply |-> "TestNonTemplateInH", typeList |-> {<<"h">>},
     regex |-> Cat(<< >>)]

TestNonTemplateInHApply(test, lines, filetype) ==
    IF filetype \in test.typeList
    THEN IF \E j \in 1..Len(lines) :
                getDefinitionLength(lines, j).raised # "none"
         THEN Raise("IndexError")
         ELSE LET bad(l) ==
                      /\ Len(l.functionNames) > 0
                      /\ ~re_search(rTemplate,
                                    Item(lines, l.number - 2).stripped)
                      /\ getDefinitionLength(lines, l.number).value > 1
                  hits == SelectSeq(lines, bad)
              IN  Return([k \in 1..Len(hits) |->
                             Violation(test, hits[k], << >>)])
    ELSE Return(<< >>)

\* 4-9
rTag == Grp(Cat(<<Lit(<<"L", "S", "S", "T", "_">>), Plus(In(Upper \cup {"_"})),
                  Ch("_"), Ch("H")>>))
\* "^\#if !defined\((LSST_[A-Z_]+_H)\)\s*$"
rIfNotDefined ==
    Cat(<<Bol, Lit(<<"#", "i", "f", " ", "!", "d", "e", "f", "i", "n", "e",
                     "d", "(">>), rTag, Ch(")"), S0, Eol>>)
\* "^\#ifndef (LSST_[A-Z_]+_H)\s*$"
rIfndef ==
    Cat(<<Bol, Lit(<<"#", "i", "f", "n", "d", "e", "f", " ">>), rTag, S0, Eol>>)
\* "^\#define " + tag + "(?:\s+1)?\s*$"
rDefine(tag) ==
    Cat(<<Bol, Lit(<<"#", "d", "e", "f", "i", "n", "e", " ">>), Lit(tag),
          Opt(Cat(<<S1, Ch("1")>>)), S0, Eol>>)
TestPreventMultipleHeader ==
    [id |-> <<"4", "-", "9">>, severity |-> 1,
     apply |-> "TestPreventMultipleHeader", typeList |-> {<<"h">>},
     regex |-> Cat(<< >>)]

TestPreventMultipleHeaderApply(test, lines, filetype) ==
    IF filetype \in test.typeList
    THEN IF ~InRange(lines, 1) THEN Raise("IndexError")
         ELSE LET second == Item(lines, 1).stripped
                  m1 == re_search(rIfNotDefined, second)
                  m2 == re_search(rIfndef, second)
                  tag == IF m2 THEN re_group1(rIfndef, second)
                         ELSE re_group1(rIfNotDefined, second)
              IN  IF ~m1 /\ ~m2
                  THEN Return(<<Violation(test, Item(lines, 1), << >>)>>)
                  ELSE IF ~InRange(lines, 2) THEN Raise("IndexError")
                  ELSE IF ~re_search(rDefine(tag), Item(lines, 2).stripped)
                  THEN Return(<<Violation(test, Item(lines, 2), << >>)>>)
                  ELSE Return(<< >>)
    ELSE Return(<< >>)

\* 4-13: "^\s*using"
TestUsingInHeader ==
    [id |-> <<"4", "-", "1", "3">>, severity |-> 1, apply |-> "Test",
     typeList |-> {<<"h">>},
     regex |-> Cat(<<Bol, S0, Lit(<<"u", "s", "i", "n", "g">>)>>)]

\* 5-32: "[^\d]\.\d+"
TestShowDigitBefore ==
    [id |-> <<"5", "-", "3", "2">>, severity |-> 1, apply |-> "Test",
     typeList |-> CTypes \cup PyTypes,
     regex |-> Cat(<<NotIn(Digit), Ch("."), Plus(In(Digit))>>)]

\* 6-1: ";.*;\s*$"
TestMultipleStatement ==
    [id |-> <<"6", "-", "1">>, severity |-> 1, apply |-> "Test",
     typeList |-> CTypes,
     regex |-> Cat(<<Ch(";"), Star(Dot), Ch(";"), S0, Eol>>)]

\* 6-9
rOpenEnd == Cat(<<Ch("{"), S0, Eol>>)                          \* "\{\s*$"
rCloseOnly == Cat(<<Bol, S0, Ch("}"), S0, Eol>>)               \* "^\s*\}\s*$"
TestEmptyLoopOneLine ==
    [id |-> <<"6", "-", "9">>, severity |-> 1, apply |-> "TestEmptyLoopOneLine",
     typeList |-> CTypes, regex |-> Cat(<< >>)]

TestEmptyLoopOneLineApply(test, lines, filetype) ==
    IF filetype \in test.typeList
    THEN IF \E j \in 1..Len(lines) :
                /\ re_search(rOpenEnd, lines[j].stripped)
                /\ ~InRange(lines, lines[j].number)
         THEN Raise("IndexError")
         ELSE LET bad(l) ==
                      /\ re_search(rOpenEnd, l.stripped)
                      /\ re_search(rCloseOnly, Item(lines, l.number).stripped)
                  hits == SelectSeq(lines, bad)
              IN  Return([k \in 1..Len(hits) |->
                             Violation(test, hits[k], << >>)])
    ELSE Return(<< >>)

\* test.apply(lines)
apply(test, lines, filetype) ==
    CASE test.apply = "Test" -> TestApply(test, lines, filetype)
      [] test.apply = "TestLeadingUnderscore" ->
             TestLeadingUnderscoreApply(test, lines, filetype)
      [] test.apply = "TestEmacsHeader" ->
             TestEmacsHeaderApply(test, lines, filetype)
      [] test.apply = "TestNonTemplateInH" ->
             TestNonTemplateInHApply(test, lines, filetype)
      [] test.apply = "TestPreventMultipleHeader" ->
             TestPreventMultipleHeaderApply(test, lines, filetype)
      [] test.apply = "TestEmptyLoopOneLine" ->
             TestEmptyLoopOneLineApply(test, lines, filetype)
      [] test.apply = "TestBreakContinue" ->
             TestBreakContinueApply(test, lines, filetype)
      [] test.apply = "TestDestructorExceptions" ->
             TestDestructorExceptionsApply(test, lines, filetype)

\* initializeTestList: the rules of the model, in the order of the catalog
initializeTestList ==
    <<TestLeadingUnderscore, TestEmacsHeader, TestNonTemplateInH,
      TestPreventMultipleHeader, TestUsingInHeader, TestShowDigitBefore,
      TestMultipleStatement, TestEmptyLoopOneLine>>

\* the rules of the catalog that follow a region of braces, in the order of
\* the catalog
regionTestList == <<TestBreakContinue, TestDestructorExceptions>>

(***************************************************************************)
(* main: the ignore file and the report.                                   *)
(***************************************************************************)
rBlank == Cat(<<Bol, S0, Eol>>)                                \* "^\s*$"

\* str(n) for a line number
DigitOf(d) == CASE d = 0 -> "0" [] d = 1 -> "1" [] d = 2 -> "2" [] d = 3 -> "3"
                [] d = 4 -> "4" [] d = 5 -> "5" [] d = 6 -> "6" [] d = 7 -> "7"
                [] d = 8 -> "8" [] d = 9 -> "9"
RECURSIVE str(_)
str(n) == IF n < 10 THEN <<DigitOf(n)>>
          ELSE Append(str(n \div 10), DigitOf(n % 10))

\* a sort by line number that does not keep the order of equal keys
RECURSIVE sortedUnstable(_)
sortedUnstable(vs) ==
    IF vs = << >> THEN << >>
    ELSE LET v == vs[Len(vs)]
             front == sortedUnstable(SubSeq(vs, 1, Len(vs) - 1))
             keep == SelectSeq(front, LAMBDA w : w.lineNumber < v.lineNumber)
             after == SelectSeq(front, LAMBDA w : w.lineNumber >= v.lineNumber)
         IN  keep \o <<v>> \o after

\* sorted(violationList, key = lambda x: x.getLineNumber()): a stable sort
RECURSIVE sorted(_)
sorted(vs) ==
    IF vs = << >> THEN << >>
    ELSE LET v == vs[Len(vs)]
             front == sorted(SubSeq(vs, 1, Len(vs) - 1))
             keep == SelectSeq(front, LAMBDA w : w.lineNumber <= v.lineNumber)
             after == SelectSeq(front, LAMBDA w : w.lineNumber > v.lineNumber)
         IN  keep \o <<v>> \o after

\* a suppression test that looks for the rule id without its prefix
parasoftSuppressBareId(v, lines) ==
    \E k \in 1..Len(lines[v.lineNumber].suppress) :
        lines[v.lineNumber].suppress[k] = v.id

\* the loop that skips the violations with a suppression on their line
parasoftSuppress(v, lines) ==
    \E k \in 1..Len(lines[v.lineNumber].suppress) :
        lines[v.lineNumber].suppress[k] = LsstDm \o v.id

\* doIgnore of the print loop
doIgnore(v, ignore, infile) ==
    /\ infile \in DOMAIN ignore
    /\ v.id \in DOMAIN ignore[infile]
    /\ \E k \in 1..Len(ignore[infile][v.id]) :
           ignore[infile][v.id][k] = str(v.lineNumber)

(***************************************************************************)
(* main: the file type of the input file.                                  *)
(***************************************************************************)
\* ".*\.(cc|c|h|py)"
rFileType == Cat(<<Star(Dot), Ch("."),
                   Grp(Alt(<<Lit(<<"c", "c">>), Lit(<<"c">>), Lit(<<"h">>),
                             Lit(<<"p", "y">>)>>))>>)

fileTypeOf(name) ==
    IF re_search(rFileType, name) THEN re_group1(rFileType, name) ELSE << >>

(***************************************************************************)
(* The input files of the model.                                           *)
(***************************************************************************)
fileH == <<"a", ".", "h">>
fileCC == <<"a", ".", "c", "c">>
fileC == <<"a", ".", "c">>
filePy == <<"a", ".", "p", "y">>
fileTxt == <<"a", ".", "t", "x", "t">>

lnClassA == <<"c", "l", "a", "s", "s", " ", "A", " ", "{", NL>>
lnStructB == <<"s", "t", "r", "u", "c", "t", " ", "B", " ", "{", NL>>
lnClassFwd == <<"c", "l", "a", "s", "s", " ", "A", ";", NL>>
lnStructFwd == <<"s", "t", "r", "u", "c", "t", " ", "B", ";", NL>>
lnPublic == kwPublic \o <<NL>>
lnPrivate == kwPrivate \o <<NL>>
lnProtected == <<" ", " ">> \o kwProtected \o <<NL>>
lnClassEnd == <<"}", ";", NL>>
lnIntX == <<"i", "n", "t", " ", "x", ";", NL>>
lnBlank == <<NL>>
lnComment == <<"/", "/", " ", "c", NL>>
lnOpenComment == <<"x", " ", "/", "*", " ", "c", NL>>
lnCloseComment == <<"c", " ", "*", "/", " ", "y", NL>>
lnPyDoc == <<Q, Q, Q, " ", "d", NL>>
lnCase == <<"c", "a", "s", "e", " ", "1", ":", " ", "*", "*", "p", " ", "=",
            " ", "0", ";", NL>>
lnUsing == <<"u", "s", "i", "n", "g", " ", "x", ";", " ", "y", ";", NL>>
lnUsingQuiet == <<"u", "s", "i", "n", "g", " ", "x", ";", " ", "y", ";", " ",
                  "/", "/", " ">> \o kwSuppress \o <<" ">> \o LsstDm
                \o <<"6", "-", "1", NL>>
lnFunction == <<"i", "n", "t", " ", "f", "(", ")", " ", "{", NL>>
lnHalf == <<"x", " ", "=", " ", ".", "5", ";", NL>>
lnTwoOpen == <<"i", "f", " ", "(", "a", ")", " ", "{", " ", "i", "f", " ", "(",
               "b", ")", " ", "{", NL>>                  \* "if (a) { if (b) {"
lnClose == <<"}", NL>>
lnSwitch == <<"s", "w", "i", "t", "c", "h", " ", "(", "a", ")", " ", "{", NL>>
lnWhile == <<"w", "h", "i", "l", "e", " ", "(", "a", ")", " ", "{", NL>>
lnBreak == <<"b", "r", "e", "a", "k", ";", NL>>
lnContinue == <<"c", "o", "n", "t", "i", "n", "u", "e", ";", NL>>
lnDtorDecl == <<"v", "i", "r", "t", "u", "a", "l", " ", "~", "A", "(", ")",
                ";", NL>>                                  \* "virtual ~A();"
lnDtorOpen == <<"A", ":", ":", "~", "A", "(", ")", " ", "{", NL>>
                                                           \* "A::~A() {"
lnThrow == <<"t", "h", "r", "o", "w", " ", "1", ";", NL>>
lnDeclaration == <<"i", "n", "t", " ", "f", "(", ")", ";", NL>>
lnMarker == <<"/", "/", " ", "-", "*", "-", " ", "L", "S", "S", "T", "-", "C",
              "+", "+", " ", "-", "*", "-", NL>>          \* "// -*- LSST-C++ -*-"
lnIntCount == <<"i", "n", "t", " ", "c", "o", "u", "n", "t", ";", NL>>
lnIntUnder == <<"i", "n", "t", " ", "_", "c", "o", "u", "n", "t", ";", NL>>
lnDivide == <<"a", " ", "=", " ", "b", " ", "/", " ", "c", " ", "*", " ", "d",
              ";", NL>>                                    \* "a = b / c * d;"
lnDefine == <<"#", "d", "e", "f", "i", "n", "e", " ", "X", " ", "1", NL>>
                                                           \* "#define X 1"

\* the lines of the ignore files
igLine1 == fileCC \o <<" ", "6", "-", "1", " ", "1", NL>>
igLine2 == fileCC \o <<" ", "6", "-", "1", " ", "2", NL>>
igHeader == fileCC \o <<" ", "4", "-", "1", "a", " ", "1", NL>>
igOther == fileH \o <<" ", "6", "-", "1", " ", "1", NL>>
igShort == fileCC \o <<" ", "6", "-", "1", NL>>
igComment == <<"#", " ", "c", NL>>

\* the characters of the lines above: the texts reCompiles is defined for
LineChars == WordChar \cup {" ", NL, Q, "{", "}", "(", ")", ";", ":", "/",
                            "*", "=", "-", ".", "#", "+", "~"}

\* the lines of the files with classes and structs
FlagLines == {lnClassA, lnStructB, lnPublic, lnPrivate, lnClassEnd, lnIntX}
\* the lines of the files with forward declarations and access specifiers
OpenLines == {lnClassA, lnStructB, lnClassFwd, lnStructFwd, lnPublic,
              lnProtected, lnClassEnd}
\* the lines of a class with a nested class
NestedLines == {lnClassA, lnPublic, lnClassEnd, lnIntX}
\* the lines of the files with comments and strings
ParseLines == {lnBlank, lnComment, lnOpenComment, lnCloseComment, lnPyDoc,
               lnIntX, lnCase}
\* the lines of the files without a block comment or a string
PlainLines == {lnBlank, lnComment, lnIntX, lnDivide, lnDefine}
\* the lines of the files with private and public members
PrivateLines == {lnClassA, lnPublic, lnPrivate, lnIntCount, lnIntUnder}
\* the lines of the files with blocks
BraceLines == {lnFunction, lnTwoOpen, lnClose, lnIntX}
\* the lines of the files with switch statements and loops
SwitchLines == {lnSwitch, lnWhile, lnClose, lnBreak, lnContinue}
\* the lines of the header files with declarations and definitions
DefinitionLines == {lnDeclaration, lnFunction, lnWhile, lnClose, lnIntX}
\* the lines of the files with destructors
DestructorLines == {lnDtorDecl, lnDtorOpen, lnFunction, lnClose, lnThrow}
\* the lines of the files whose rules are applied in any order
OrderLines == {lnMarker, lnUsing, lnHalf, lnFunction}
\* the lines of the files that break rules
ReportLines == {lnUsing, lnUsingQuiet, lnFunction, lnHalf, lnCase}
IgnoreLines == {igLine1, igLine2, igHeader, igOther, igShort, igComment}

SeqsUpTo(S, n) == UNION {[1..k -> S] : k \in 0..n}

\* os.path.exists(opts.ignore) is false
NoFile == <<"no file">>

VARIABLES
    infile,        \* the name of the file to check
    filetype,      \* its suffix: one of c, cc, h, py, or empty
    severity,      \* opts.severity
    rawLines,      \* fp.readlines()
    pc,            \* the statement of main that runs next
    exc,           \* the exception that ended the run, if any
    lines,         \* parseLines: newLines, later flagLines: lines
    inComment,     \* parseLines: inComment
    inPyDoc,       \* parseLines: inPyDoc
    flag,          \* flagLines: its local variables
    nFlagged,      \* flagLines: the number of lines stamped so far
    nApplied,      \* main: the number of tests applied so far
    applied,       \* main: the places in the catalog of the tests applied
    violationList, \* main: violationList
    ignoreFile,    \* main: the lines of the ignore file
    nIgnore,       \* main: the number of lines of the ignore file read
    ignore,        \* main: ignore
    violationSort, \* main: violationSort
    violationFinal,\* main: violationFinal
    header,        \* main: the two header lines have been printed
    printed        \* main: the violations printed

vars == <<infile, filetype, severity, rawLines, pc, exc, lines, inComment,
          inPyDoc, flag, nFlagged, nApplied, applied, violationList,
          ignoreFile,
          nIgnore, ignore, violationSort, violationFinal, header, printed>>
inputVars == <<infile, filetype, severity>>
parseVars == <<rawLines, lines, inComment, inPyDoc, flag, nFlagged>>
testVars == <<nApplied, applied, violationList>>
ignoreVars == <<ignoreFile, nIgnore, ignore>>
reportVars == <<violationSort, violationFinal, header, printed>>

EmptyMap == [f \in {} |-> << >>]

\* main up to the opening of the input file
InitWith(files, cutoffs) ==
    /\ infile \in files
    /\ filetype = fileTypeOf(infile)
    /\ severity \in cutoffs
    /\ rawLines = << >>
    /\ pc = "open"
    /\ exc = "none"
    /\ lines = << >>
    /\ inComment = FALSE
    /\ inPyDoc = FALSE
    /\ flag = flagInit
    /\ nFlagged = 0
    /\ nApplied = 0
    /\ applied = {}
    /\ violationList = << >>
    /\ ignoreFile = NoFile
    /\ nIgnore = 0
    /\ ignore = EmptyMap
    /\ violationSort = << >>
    /\ violationFinal = << >>
    /\ header = FALSE
    /\ printed = << >>

\* main: fp.readlines() and the call of parseLines
ReadFile(contents) ==
    /\ pc = "open"
    /\ rawLines' \in contents
    /\ pc' = "parseLines"
    /\ UNCHANGED <<inputVars, exc, lines, inComment, inPyDoc, flag, nFlagged,
                   testVars, ignoreVars, reportVars>>

\* parseLines: one pass of the loop over the raw lines
ParseLine ==
    /\ pc = "parseLines"
    /\ Len(lines) < Len(rawLines)
    /\ \E p \in {parseLine(rawLines[Len(lines) + 1], filetype, inComment,
                           inPyDoc)} :
           /\ lines' = Append(lines, Line(rawLines[Len(lines) + 1],
                                          p.stripped, Len(lines) + 1))
           /\ inComment' = p.inComment
           /\ inPyDoc' = p.inPyDoc
    /\ UNCHANGED <<inputVars, rawLines, pc, exc, flag, nFlagged, testVars,
                   ignoreVars, reportVars>>

\* parseLines: the loop is over and flagLines is called
ParseDone ==
    /\ pc = "parseLines"
    /\ Len(lines) = Len(rawLines)
    /\ pc' = "flagLines"
    /\ UNCHANGED <<inputVars, parseVars, exc, testVars, ignoreVars,
                   reportVars>>

\* flagLines: one pass of the loop over the lines; the line is stamped before
\* its names are extracted, so a line on which getVariableNames raises is
\* stamped as well
FlagLine ==
    /\ pc = "flagLines"
    /\ nFlagged < Len(lines)
    /\ \E f \in {flagLocals(flag, lines[nFlagged + 1].stripped)} :
       \E raises \in {variableNamesRaises(lines[nFlagged + 1].stripped)} :
           /\ flag' = f
           /\ lines' = [lines EXCEPT ![nFlagged + 1] = flagLine(@, f, raises)]
           /\ IF raises
              THEN pc' = "raised" /\ exc' = "re.error"
              ELSE UNCHANGED <<pc, exc>>
    /\ nFlagged' = nFlagged + 1
    /\ UNCHANGED <<inputVars, rawLines, inComment, inPyDoc, testVars,
                   ignoreVars, reportVars>>

\* flagLines and parseLines return
FlagDone ==
    /\ pc = "flagLines"
    /\ nFlagged = Len(lines)
    /\ pc' = "tests"
    /\ UNCHANGED <<inputVars, parseVars, exc, testVars, ignoreVars,
                   reportVars>>

\* main: one pass of the loop "violationList += test.apply(lines)"
ApplyTest ==
    /\ pc = "tests"
    /\ nApplied < Len(initializeTestList)
    /\ \E r \in {apply(initializeTestList[nApplied + 1], lines, filetype)} :
           IF r.raised # "none"
           THEN /\ pc' = "raised"
                /\ exc' = r.raised
                /\ UNCHANGED testVars
           ELSE /\ violationList' = violationList \o r.value
                /\ nApplied' = nApplied + 1
                /\ applied' = applied \cup {nApplied + 1}
                /\ UNCHANGED <<pc, exc>>
    /\ UNCHANGED <<inputVars, parseVars, ignoreVars, reportVars>>

\* main: one pass of the loop over the tests, for the rules that follow a
\* region of braces
ApplyRegionTest ==
    /\ pc = "tests"
    /\ nApplied < Len(regionTestList)
    /\ \E r \in {apply(regionTestList[nApplied + 1], lines, filetype)} :
           IF r.raised # "none"
           THEN /\ pc' = "raised"
                /\ exc' = r.raised
                /\ UNCHANGED testVars
           ELSE /\ violationList' = violationList \o r.value
                /\ nApplied' = nApplied + 1
                /\ applied' = applied \cup {nApplied + 1}
                /\ UNCHANGED <<pc, exc>>
    /\ UNCHANGED <<inputVars, parseVars, ignoreVars, reportVars>>

\* a pass of the loop of main that applies a test and then empties the
\* stripped text of the lines the test reported
ApplyAnyTestBlanking ==
    /\ pc = "tests"
    /\ \E k \in (1..Len(initializeTestList)) \ applied :
       \E r \in {apply(initializeTestList[k], lines, filetype)} :
           IF r.raised # "none"
           THEN /\ pc' = "raised"
                /\ exc' = r.raised
                /\ UNCHANGED <<testVars, lines>>
           ELSE /\ violationList' = violationList \o r.value
                /\ nApplied' = nApplied + 1
                /\ applied' = applied \cup {k}
                /\ lines' = [i \in 1..Len(lines) |->
                                IF \E j \in 1..Len(r.value) :
                                       r.value[j].lineNumber = i
                                THEN [lines[i] EXCEPT !.stripped = << >>]
                                ELSE lines[i]]
                /\ UNCHANGED <<pc, exc>>
    /\ UNCHANGED <<inputVars, rawLines, inComment, inPyDoc, flag, nFlagged,
                   ignoreVars, reportVars>>

\* main: one pass of the loop over the tests, were the tests of the catalog
\* applied in any order
ApplyAnyTest ==
    /\ pc = "tests"
    /\ \E k \in (1..Len(initializeTestList)) \ applied :
       \E r \in {apply(initializeTestList[k], lines, filetype)} :
           IF r.raised # "none"
           THEN /\ pc' = "raised"
                /\ exc' = r.raised
                /\ UNCHANGED testVars
           ELSE /\ violationList' = violationList \o r.value
                /\ nApplied' = nApplied + 1
                /\ applied' = applied \cup {k}
                /\ UNCHANGED <<pc, exc>>
    /\ UNCHANGED <<inputVars, parseVars, ignoreVars, reportVars>>

\* main: every test has been applied; the ignore file is opened if it exists
OpenIgnore(files) ==
    /\ pc = "tests"
    /\ nApplied = Len(initializeTestList)
    /\ \E f \in files \cup {NoFile} :
           /\ ignoreFile' = f
           /\ pc' = IF f = NoFile THEN "report" ELSE "ignore"
    /\ UNCHANGED <<inputVars, parseVars, exc, testVars, nIgnore, ignore,
                   reportVars>>

\* main: one pass of the loop over the lines of the ignore file
LoadIgnore ==
    /\ pc = "ignore"
    /\ nIgnore < Len(ignoreFile)
    /\ nIgnore' = nIgnore + 1
    /\ \E line \in {re_sub(rPyComment, << >>, ignoreFile[nIgnore + 1])} :
       \E fields \in {split(line)} :
           IF re_search(rBlank, line)
           THEN UNCHANGED <<pc, exc, ignore>>
           ELSE IF Len(fields) # 3
           THEN pc' = "raised" /\ exc' = "ValueError" /\ UNCHANGED ignore
           ELSE IF fields[1] \in DOMAIN ignore
           THEN pc' = "raised" /\ exc' = "TypeError" /\ UNCHANGED ignore
           ELSE /\ ignore' = [f \in DOMAIN ignore \cup {fields[1]} |->
                                 IF f = fields[1]
                                 THEN [r \in {fields[2]} |-> <<fields[3]>>]
                                 ELSE ignore[f]]
                /\ UNCHANGED <<pc, exc>>
    /\ UNCHANGED <<inputVars, parseVars, testVars, ignoreFile, reportVars>>

\* main: the ignore file has been read
IgnoreDone ==
    /\ pc = "ignore"
    /\ nIgnore = Len(ignoreFile)
    /\ pc' = "report"
    /\ UNCHANGED <<inputVars, parseVars, exc, testVars, ignoreVars,
                   reportVars>>

\* a report that leaves out the violations whose severity is the cutoff
ReportBelowCutoff ==
    /\ pc = "report"
    /\ \E vSort \in {sorted(violationList)} :
       \E vFinal \in {SelectSeq(vSort,
                                LAMBDA v : ~parasoftSuppress(v, lines))} :
           /\ violationSort' = vSort
           /\ violationFinal' = vFinal
           /\ header' = (vFinal # << >>)
           /\ printed' = SelectSeq(vFinal,
                             LAMBDA v : /\ ~doIgnore(v, ignore, infile)
                                        /\ v.severity < severity)
    /\ pc' = "done"
    /\ UNCHANGED <<inputVars, parseVars, exc, testVars, ignoreVars>>

\* main: the violations are sorted, those with a suppression are skipped and
\* the others are printed unless they are ignored or beyond the severity
Report ==
    /\ pc = "report"
    /\ \E vSort \in {sorted(violationList)} :
       \E vFinal \in {SelectSeq(vSort,
                                LAMBDA v : ~parasoftSuppress(v, lines))} :
           /\ violationSort' = vSort
           /\ violationFinal' = vFinal
           /\ header' = (vFinal # << >>)
           /\ printed' = SelectSeq(vFinal,
                             LAMBDA v : /\ ~doIgnore(v, ignore, infile)
                                        /\ v.severity <= severity)
    /\ pc' = "done"
    /\ UNCHANGED <<inputVars, parseVars, exc, testVars, ignoreVars>>

(***************************************************************************)
(* The specifications.                                                     *)
(***************************************************************************)
AllFiles == {fileH, fileCC, fileC, filePy, fileTxt}

\* the whole of main on files that break rules
Init == InitWith({fileH, fileCC, filePy, fileTxt}, {0, 1, 5})
Next ==
    \/ ReadFile(SeqsUpTo(ReportLines, MaxReportLines))
    \/ ParseLine
    \/ ParseDone
    \/ FlagLine
    \/ FlagDone
    \/ ApplyTest
    \/ OpenIgnore(SeqsUpTo(IgnoreLines, MaxIgnoreLines))
    \/ LoadIgnore
    \/ IgnoreDone
    \/ Report
Spec == Init /\ [][Next]_vars

\* parseLines on files of comments and code, for every file type
InitParse == InitWith(AllFiles, {5})
NextParse ==
    \/ ReadFile(SeqsUpTo(ParseLines, MaxLines))
    \/ ParseLine
    \/ ParseDone
    \/ FlagLine
    \/ FlagDone
SpecParse == InitParse /\ [][NextParse]_vars

\* parseLines on files without a block comment or a string, for every file
\* type
NextPlain ==
    \/ ReadFile(SeqsUpTo(PlainLines, MaxPlainLines))
    \/ ParseLine
    \/ ParseDone
    \/ FlagLine
    \/ FlagDone
SpecPlain == InitParse /\ [][NextPlain]_vars

\* parseLines on header files of classes and structs
InitFlag == InitWith({fileH}, {5})
NextFlag ==
    \/ ReadFile(SeqsUpTo(FlagLines, MaxFlagLines))
    \/ ParseLine
    \/ ParseDone
    \/ FlagLine
    \/ FlagDone
SpecFlag == InitFlag /\ [][NextFlag]_vars

\* parseLines on header files with forward declarations
NextOpen ==
    \/ ReadFile(SeqsUpTo(OpenLines, MaxOpenLines))
    \/ ParseLine
    \/ ParseDone
    \/ FlagLine
    \/ FlagDone
SpecOpen == InitFlag /\ [][NextOpen]_vars

\* parseLines on header files of a class with a nested class
NextNested ==
    \/ ReadFile(SeqsUpTo(NestedLines, MaxNestedLines))
    \/ ParseLine
    \/ ParseDone
    \/ FlagLine
    \/ FlagDone
SpecNested == InitFlag /\ [][NextNested]_vars

\* parseLines and the rules on header files of classes with members
NextPrivate ==
    \/ ReadFile(SeqsUpTo(PrivateLines, MaxPrivateLines))
    \/ ParseLine
    \/ ParseDone
    \/ FlagLine
    \/ FlagDone
    \/ ApplyTest
SpecPrivate == InitFlag /\ [][NextPrivate]_vars

\* parseLines on files with blocks
InitBraces == InitWith({fileCC}, {5})
NextBraces ==
    \/ ReadFile(SeqsUpTo(BraceLines, MaxBraceLines))
    \/ ParseLine
    \/ ParseDone
    \/ FlagLine
    \/ FlagDone
SpecBraces == InitBraces /\ [][NextBraces]_vars

\* the rule 5-17 on files with switch statements and loops
NextSwitch ==
    \/ ReadFile(SeqsUpTo(SwitchLines, MaxSwitchLines))
    \/ ParseLine
    \/ ParseDone
    \/ FlagLine
    \/ FlagDone
    \/ ApplyRegionTest
SpecSwitch == InitBraces /\ [][NextSwitch]_vars

\* the rule 5-28 on files with destructors
NextDestructor ==
    \/ ReadFile(SeqsUpTo(DestructorLines, MaxDestructorLines))
    \/ ParseLine
    \/ ParseDone
    \/ FlagLine
    \/ FlagDone
    \/ ApplyRegionTest
SpecDestructor == InitBraces /\ [][NextDestructor]_vars

\* the rules on header files with declarations and definitions
NextDefinition ==
    \/ ReadFile(SeqsUpTo(DefinitionLines, MaxDefinitionLines))
    \/ ParseLine
    \/ ParseDone
    \/ FlagLine
    \/ FlagDone
    \/ ApplyTest
SpecDefinition == InitFlag /\ [][NextDefinition]_vars

\* parseLines and the rules, applied in any order
InitOrder == InitWith({fileH, fileCC}, {5})
NextOrder ==
    \/ ReadFile(SeqsUpTo(OrderLines, MaxOrderLines))
    \/ ParseLine
    \/ ParseDone
    \/ FlagLine
    \/ FlagDone
    \/ ApplyAnyTest
SpecOrder == InitOrder /\ [][NextOrder]_vars

(***************************************************************************)
(* The properties of the program.                                          *)
(***************************************************************************)
\* the run is over: main returned or an exception ended it
Ended == pc \in {"done", "raised"}

Ascending(vs) ==
    \A i, j \in 1..Len(vs) : i < j => vs[i].lineNumber <= vs[j].lineNumber

\* the violations of vs on line n, in the order of vs
AtLine(vs, n) == SelectSeq(vs, LAMBDA v : v.lineNumber = n)

\* a is b with some of its elements left out
RECURSIVE IsSubseq(_, _)
IsSubseq(a, b) ==
    IF a = << >> THEN TRUE
    ELSE IF b = << >> THEN FALSE
    ELSE IF Head(a) = Head(b) THEN IsSubseq(Tail(a), Tail(b))
    ELSE IsSubseq(a, Tail(b))

\* C1: parseLines returns one Line per raw line, in the order of the raw
\* lines: the i-th Line has number i and the i-th raw line as its raw text,
\* and no line is dropped, merged or added, whatever the lines and the file
\* type are.
C1_OneLinePerRawLine ==
    pc \in {"tests", "raised"} =>
        /\ pc = "tests"
        /\ Len(lines) = Len(rawLines)
        /\ \A i \in 1..Len(lines) :
               lines[i].number = i /\ lines[i].raw = rawLines[i]

\* C2: the violations are reported in ascending order of line number, the
\* violations of one line in the order the rules produced them, and the
\* suppression, ignore and severity filters keep the order of what they
\* let through.
C2_StableOrder ==
    pc = "done" =>
        /\ Ascending(violationSort)
        /\ Ascending(printed)
        /\ IsSubseq(violationFinal, violationSort)
        /\ IsSubseq(printed, violationFinal)
        /\ \A n \in 1..Len(lines) :
               /\ AtLine(violationSort, n) = AtLine(violationList, n)
               /\ IsSubseq(AtLine(printed, n), AtLine(violationList, n))

\* a report of a list the rules did not produce in line order, with two
\* violations of one line printed and a violation filtered out
C2_Witness ==
    /\ pc = "done"
    /\ violationSort # violationList
    /\ Len(printed) < Len(violationSort)
    /\ \E i, j \in 1..Len(printed) :
           /\ i < j
           /\ printed[i].lineNumber = printed[j].lineNumber
           /\ printed[i].id # printed[j].id

\* the raw line carries a suppression marker that names the rule: the words
\* parasoft-suppress, then, before any double quote, the token LsstDm-<id>
\* between white space
rMarker(id) ==
    Cat(<<Lit(kwSuppress), S1,
          Opt(Cat(<<Star(NotIn({Q})), In(SpaceChar)>>)),
          Lit(LsstDm \o id),
          Alt(<<In(SpaceChar), Ch(Q), Eol>>)>>)
Marked(v) == re_search(rMarker(v.id), lines[v.lineNumber].raw)

\* C3: a violation whose line carries a suppression marker naming its rule
\* is never reported, whatever the severity cutoff and the ignore list are;
\* the marker removes no violation of another rule on that line and no
\* violation of the same rule on another line.
C3_Suppression ==
    pc = "done" =>
        /\ \A k \in 1..Len(printed) : ~Marked(printed[k])
        /\ violationFinal = SelectSeq(violationSort, LAMBDA v : ~Marked(v))

\* a marked violation is left out while a violation of another rule on its
\* line and a violation of its rule on another line are reported
C3_Witness ==
    /\ pc = "done"
    /\ \E k \in 1..Len(violationSort) :
           LET v == violationSort[k]
           IN  /\ Marked(v)
               /\ \E i, j \in 1..Len(printed) :
                      /\ printed[i].lineNumber = v.lineNumber
                      /\ printed[i].id # v.id
                      /\ printed[j].id = v.id
                      /\ printed[j].lineNumber # v.lineNumber

\* the lines of an ignore file that are entries: a file, a rule and a line
IgnoreEntries == {igLine1, igLine2, igHeader, igOther}

\* the ignore file has been opened and every line of it is an entry
AllEntries ==
    /\ ignoreFile # NoFile
    /\ \A k \in 1..Len(ignoreFile) : ignoreFile[k] \in IgnoreEntries

\* no two lines of the ignore file are entries for the same file
OneEntryPerFile ==
    \A k, l \in 1..Len(ignoreFile) :
        (/\ k # l
         /\ ignoreFile[k] \in IgnoreEntries
         /\ ignoreFile[l] \in IgnoreEntries)
            => split(ignoreFile[k])[1] # split(ignoreFile[l])[1]

\* the text of the entry of (file, rule, line)
EntryLine(file, id, n) == file \o <<" ">> \o id \o <<" ">> \o str(n) \o <<NL>>

\* the ignore file lists the violation: its file, its rule and its line
Listed(v) ==
    \E k \in 1..Len(ignoreFile) :
        ignoreFile[k] = EntryLine(infile, v.id, v.lineNumber)

\* the ignore map holds the entry of the fields (file, rule, line)
Recorded(fields) ==
    /\ fields[1] \in DOMAIN ignore
    /\ fields[2] \in DOMAIN ignore[fields[1]]
    /\ \E k \in 1..Len(ignore[fields[1]][fields[2]]) :
           ignore[fields[1]][fields[2]][k] = fields[3]

\* C4: an entry (file, rule, line) of the ignore list removes from the
\* report the violations of that rule on that line of that file and no
\* other: with an ignore list of entries, the run reports every violation
\* that is left after suppression, is within the severity cutoff and is not
\* listed.
C4_IgnoreExactlyListed ==
    (Ended /\ AllEntries) =>
        /\ pc = "done"
        /\ printed = SelectSeq(violationFinal,
                               LAMBDA v : ~Listed(v) /\ v.severity <= severity)

\* C5: the entries of an ignore list for one file accumulate: after the
\* list is loaded, every entry of it is in the ignore map, also when several
\* entries name the same file.
C5_EntriesAccumulate ==
    (Ended /\ AllEntries /\ ~OneEntryPerFile) =>
        /\ pc = "done"
        /\ \A k \in 1..Len(ignoreFile) : Recorded(split(ignoreFile[k]))

\* C6: a line of the ignore list that is not a triple is dropped: the
\* loading goes on with the other entries and the run does not abort.
C6_MalformedDropped ==
    (/\ Ended
     /\ ignoreFile # NoFile
     /\ OneEntryPerFile
     /\ \E k \in 1..Len(ignoreFile) : ignoreFile[k] = igShort) =>
        /\ pc = "done"
        /\ \A k \in 1..Len(ignoreFile) :
               ignoreFile[k] \in IgnoreEntries =>
                   Recorded(split(ignoreFile[k]))

\* C7: the rules raise no exception, whatever the lines of a file of a
\* supported type are: the empty file, a file of one line, a file whose last
\* line opens a block.
C7_RulesNeverRaise ==
    filetype \in CTypes \cup PyTypes =>
        ~(pc = "raised" /\ nFlagged = Len(rawLines) /\ ignoreFile = NoFile
          /\ exc # "re.error")

\* the types the rule of a violation applies to
TypeListOf(id) ==
    (CHOOSE t \in {initializeTestList[k] : k \in 1..Len(initializeTestList)} :
         t.id = id).typeList

\* C8: a rule whose type list does not hold the file type produces no
\* violation; a file whose type is none of c, cc, h and py gives an empty
\* violation list and the run does not fail, whatever the lines are.
C8_UnsupportedTypeIsQuiet ==
    /\ \A k \in 1..Len(violationList) :
           filetype \in TypeListOf(violationList[k].id)
    /\ filetype \notin CTypes \cup PyTypes =>
           /\ pc # "raised"
           /\ violationList = << >>
           /\ printed = << >>

\* the access flags stamped on a line that are true
AccessFlags(l) ==
    {a \in {"public", "protected", "private"} :
        \/ a = "public" /\ l.inPublic
        \/ a = "protected" /\ l.inProtected
        \/ a = "private" /\ l.inPrivate}

\* C9: a line stamped as outside every class and struct body has none of
\* the flags inPublic, inProtected and inPrivate.
C9_NoAccessOutsideBody ==
    \A i \in 1..nFlagged :
        (~lines[i].inClass /\ ~lines[i].inStruct) =>
            AccessFlags(lines[i]) = {}

\* a line outside every body is stamped after a line of a body with an
\* access flag
C9_Witness ==
    \E j, k \in 1..nFlagged :
        /\ j < k
        /\ (lines[j].inClass \/ lines[j].inStruct)
        /\ AccessFlags(lines[j]) # {}
        /\ ~lines[k].inClass /\ ~lines[k].inStruct

\* the bodies open after the first n lines, the outermost first: for each
\* body, whether an access specifier of it has been read
RECURSIVE bodiesAfter(_, _)
bodiesAfter(ls, n) ==
    IF n = 0 THEN << >>
    ELSE LET open == bodiesAfter(ls, n - 1)
             raw == ls[n].raw
         IN  IF raw \in {lnClassA, lnStructB} THEN Append(open, FALSE)
             ELSE IF raw = lnClassEnd
             THEN IF open = << >> THEN open
                  ELSE SubSeq(open, 1, Len(open) - 1)
             ELSE IF raw \in {lnPublic, lnPrivate} /\ open # << >>
             THEN [open EXCEPT ![Len(open)] = TRUE]
             ELSE open

\* C10: a line directly inside a class or struct body, no nested class or
\* struct being open, has exactly one access flag once an access specifier
\* of the body has been read, and none before; this holds again after a
\* nested class or struct has been closed.
C10_OneAccessInsideBody ==
    \A i \in 1..nFlagged :
        LET l == lines[i]
            open == bodiesAfter(lines, i)
        IN  (/\ l.inClass \/ l.inStruct
             /\ ~l.inNestedClass /\ ~l.inNestedStruct
             /\ l.raw \notin {lnClassA, lnStructB, lnClassEnd}
             /\ open # << >>) =>
                IF open[Len(open)]
                THEN Cardinality(AccessFlags(l)) = 1
                ELSE AccessFlags(l) = {}

\* C11: when a line beginning with "};" is read directly inside the body of
\* a class or struct that is not nested, the next line, unless it opens a
\* class or struct itself, is stamped with inClass and inStruct false, with
\* no access flag and with an empty class name and struct name.
C11_ClassEndExits ==
    \A i \in 1..(nFlagged - 1) :
        (/\ lines[i].raw = lnClassEnd
         /\ Len(bodiesAfter(lines, i - 1)) = 1
         /\ lines[i + 1].raw \notin {lnClassA, lnStructB}) =>
            /\ ~lines[i + 1].inClass /\ ~lines[i + 1].inStruct
            /\ AccessFlags(lines[i + 1]) = {}
            /\ lines[i + 1].className = << >>
            /\ lines[i + 1].structName = << >>

\* a "};" closes a body in which an access specifier was read, and a line
\* that opens nothing follows it
C11_Witness ==
    \E i \in 2..(nFlagged - 1) :
        /\ lines[i].raw = lnClassEnd
        /\ Len(bodiesAfter(lines, i - 1)) = 1
        /\ AccessFlags(lines[i - 1]) # {}
        /\ lines[i + 1].raw = lnIntX

\* the text w occurs in the text s
Holds(w, s) ==
    \E k \in 1..(Len(s) - Len(w) + 1) : SubSeq(s, k, k + Len(w) - 1) = w

\* the text w occurs twice in the text s, the occurrences not overlapping
HoldsTwice(w, s) ==
    \E j, k \in 1..(Len(s) - Len(w) + 1) :
        /\ j + Len(w) <= k
        /\ SubSeq(s, j, j + Len(w) - 1) = w
        /\ SubSeq(s, k, k + Len(w) - 1) = w

\* a block comment of C is open after the first n raw lines: a line with an
\* opener and no closer opens it, the next line with a closer closes it
RECURSIVE commentAfter(_, _)
commentAfter(raws, n) ==
    IF n = 0 THEN FALSE
    ELSE IF commentAfter(raws, n - 1)
    THEN ~Holds(<<"*", "/">>, raws[n])
    ELSE Holds(<<"/", "*">>, raws[n]) /\ ~Holds(<<"*", "/">>, raws[n])

\* a triple-quoted string of python is open after the first n raw lines
RECURSIVE docStringAfter(_, _)
docStringAfter(raws, n) ==
    IF n = 0 THEN FALSE
    ELSE IF docStringAfter(raws, n - 1)
    THEN ~Holds(<<Q, Q, Q>>, raws[n])
    ELSE Holds(<<Q, Q, Q>>, raws[n]) /\ ~HoldsTwice(<<Q, Q, Q>>, raws[n])

\* line i of the input lies entirely inside a block comment or a
\* triple-quoted string that an earlier line opened and that is still open
\* after it
InsideOpenSpan(i) ==
    \/ /\ filetype \in CTypes
       /\ commentAfter(rawLines, i - 1) /\ commentAfter(rawLines, i)
    \/ /\ filetype \in PyTypes
       /\ docStringAfter(rawLines, i - 1) /\ docStringAfter(rawLines, i)

\* C12: a line of C-family input that lies entirely inside a block comment
\* opened on an earlier line and not yet closed has the empty string as its
\* normalized text and is still present as a Line; so has a line of script
\* input inside an unterminated triple-quoted string.
C12_InsideSpanIsEmpty ==
    /\ pc \notin {"open", "parseLines"} => Len(lines) = Len(rawLines)
    /\ \A i \in 1..Len(lines) :
           InsideOpenSpan(i) =>
               /\ lines[i].raw = rawLines[i]
               /\ lines[i].number = i
               /\ lines[i].stripped = << >>

\* a line with text of its own was read inside the open comment of a
\* C-family file
C12_Witness ==
    /\ filetype \in CTypes
    /\ pc \notin {"open", "parseLines"}
    /\ \E i \in 2..Len(lines) :
           /\ InsideOpenSpan(i)
           /\ lines[i].raw \in {lnIntX, lnCase}

\* the place of the first occurrence of the text w in the text s
FirstAt(w, s) ==
    Min({k \in 1..(Len(s) - Len(w) + 1) : SubSeq(s, k, k + Len(w) - 1) = w})

\* the text of s before the first occurrence of w
Before(w, s) == SubSeq(s, 1, FirstAt(w, s) - 1)

\* C13: on a line of C-family input that opens a block comment and does not
\* close it, no comment being open before the line, only the part from the
\* opener to the end of the line is removed: the text before the opener is
\* the normalized text of the line (with or without the end of the line).
C13_OpenerKeepsHead ==
    \A i \in 1..Len(lines) :
        (/\ filetype \in CTypes
         /\ ~commentAfter(rawLines, i - 1) /\ commentAfter(rawLines, i)
         /\ ~Holds(<<Q>>, Before(<<"/", "*">>, rawLines[i]))
         /\ ~Holds(<<"/", "/">>, Before(<<"/", "*">>, rawLines[i]))) =>
            lines[i].stripped \in
                {Before(<<"/", "*">>, rawLines[i]),
                 Append(Before(<<"/", "*">>, rawLines[i]), NL)}

\* the text s has no comment and no string of the file type: none of the
\* marks of a comment of its language and no quote
Plain(s) ==
    /\ ~Holds(<<Q>>, s)
    /\ filetype \in CTypes =>
           /\ ~Holds(<<"/", "*">>, s)
           /\ ~Holds(<<"*", "/">>, s)
           /\ ~Holds(<<"/", "/">>, s)
    /\ filetype \in PyTypes => ~Holds(<<"#">>, s)

\* the normalized texts of the lines, in the order of the lines
StrippedTexts == [i \in 1..Len(lines) |-> lines[i].stripped]

\* C14: normalization is idempotent on text without comments and strings:
\* when no raw line has a comment or a string, normalizing the normalized
\* texts of the lines for the same file type returns the same text for
\* every line.
C14_Idempotent ==
    (/\ pc \notin {"open", "parseLines"}
     /\ \A i \in 1..Len(rawLines) : Plain(rawLines[i])) =>
        parseLinesLoop(StrippedTexts, filetype, Len(lines)).stripped
            = StrippedTexts

\* three lines without a comment or a string were normalized, among them a
\* line with a slash and a star or a line with a hash
C14_Witness ==
    /\ pc \notin {"open", "parseLines"}
    /\ Len(rawLines) = 3
    /\ \A i \in 1..Len(rawLines) : Plain(rawLines[i])
    /\ \E i \in 1..Len(rawLines) : rawLines[i] \in {lnDivide, lnDefine}

\* the default of the option --severity
DefaultSeverity == 5

\* the violation is neither suppressed by a marker of its line nor listed
\* in the ignore file
Kept(v) == ~Marked(v) /\ ~(ignoreFile # NoFile /\ Listed(v))

\* C15: the violations reported are those whose severity is at most the
\* cutoff of the caller: every violation that is neither suppressed nor
\* ignored and whose severity is within the cutoff is reported, no other
\* is, and with the default cutoff no violation of the catalog is left out
\* for its severity.
C15_SeverityCutoff ==
    /\ \A k \in 1..Len(initializeTestList) :
           initializeTestList[k].severity <= DefaultSeverity
    /\ pc = "done" =>
           /\ printed = SelectSeq(violationSort,
                            LAMBDA v : Kept(v) /\ v.severity <= severity)
           /\ severity = DefaultSeverity =>
                  printed = SelectSeq(violationSort, Kept)

\* with the cutoff at the severity of the rules, a violation is reported
\* while another one is suppressed or ignored
C15_Witness ==
    /\ pc = "done"
    /\ severity = 1
    /\ printed # << >>
    /\ Len(printed) < Len(violationSort)

\* the violations of the rule in the list of main, in the order of the list
OfRule(test) == SelectSeq(violationList, LAMBDA v : v.id = test.id)

\* C16: a rule of a single regular expression, applied to a file of a type
\* of its type list, emits exactly one violation for each line whose
\* normalized text matches the expression and none for any other line, in
\* the order of the lines; the raw text plays no part.
C16_SimpleRule ==
    pc = "tests" =>
    \A k \in 1..nApplied :
        LET test == initializeTestList[k]
            vs == OfRule(test)
        IN  (test.apply = "Test" /\ filetype \in test.typeList) =>
                /\ \A i \in 1..Len(lines) :
                       Cardinality({j \in 1..Len(vs) : vs[j].lineNumber = i})
                           = IF re_search(test.regex, lines[i].stripped)
                             THEN 1 ELSE 0
                /\ \A j \in 1..Len(vs) : vs[j].lineNumber \in 1..Len(lines)
                /\ \A i, j \in 1..Len(vs) :
                       i < j => vs[i].lineNumber < vs[j].lineNumber

\* rule 6-1 has emitted a violation on a line whose raw text does not match
\* its expression, and none on a line whose normalized text does not match
C16_Witness ==
    /\ pc = "tests"
    /\ nApplied >= 7
    /\ filetype \in TestMultipleStatement.typeList
    /\ \E j \in 1..Len(OfRule(TestMultipleStatement)) :
           ~re_search(TestMultipleStatement.regex,
                      lines[OfRule(TestMultipleStatement)[j].lineNumber].raw)
    /\ \E i \in 1..Len(lines) :
           ~re_search(TestMultipleStatement.regex, lines[i].stripped)

\* the violations of rule 3-10 on line i, in the order of the list of main
UnderscoreAt(i) ==
    SelectSeq(violationList,
              LAMBDA v : v.id = TestLeadingUnderscore.id /\ v.lineNumber = i)

\* C17: rule 3-10 reports a variable declared without a leading underscore
\* on a line stamped inPrivate, as "int count;" after "private:", and
\* reports no line whose flag inPrivate is false: the same declaration after
\* a preceding "public:" of the same class gets no violation of 3-10.
C17_LeadingUnderscore ==
    nApplied >= 1 =>
        \A i \in 1..Len(lines) :
            /\ (lines[i].inPrivate /\ lines[i].raw = lnIntCount) =>
                   /\ Len(UnderscoreAt(i)) = 1
                   /\ UnderscoreAt(i)[1].extraComment
                          = <<"c", "o", "u", "n", "t">>
            /\ (lines[i].inPrivate /\ lines[i].raw = lnIntUnder) =>
                   UnderscoreAt(i) = << >>
            /\ ~lines[i].inPrivate => UnderscoreAt(i) = << >>
            /\ (i > 1 /\ lines[i - 1].raw = lnPublic) =>
                   UnderscoreAt(i) = << >>

\* in a class, "int count;" is reported after "private:" while the
\* "int _count;" before it is passed
C17_Witness ==
    /\ nApplied >= 1
    /\ Len(lines) = 4
    /\ lines[1].raw = lnClassA
    /\ lines[2].raw = lnPrivate
    /\ lines[3].raw = lnIntUnder /\ UnderscoreAt(3) = << >>
    /\ lines[4].raw = lnIntCount /\ UnderscoreAt(4) # << >>

\* the number of times v occurs in the list vs
Count(v, vs) == Cardinality({k \in 1..Len(vs) : vs[k] = v})

\* the lists a and b hold the same elements, each as many times
SameBag(a, b) ==
    /\ Len(a) = Len(b)
    /\ \A k \in 1..Len(a) : Count(a[k], a) = Count(a[k], b)

\* what the tests applied so far return on the lines as they are now, in
\* the order of the catalog
ReturnedNow ==
    extend([k \in 1..Len(initializeTestList) |->
               IF k \in applied
               THEN apply(initializeTestList[k], lines, filetype).value
               ELSE << >>])

StartsWith(w, s) == Len(s) >= Len(w) /\ SubSeq(s, 1, Len(w)) = w

\* the raw line carries the marker of the first line
HasMarker(raw) ==
    \/ StartsWith(<<"/", "/", " ", "-", "*", "-", " ", "L", "S", "S", "T",
                    "-", "C", "+", "+", " ", "-", "*", "-">>, raw)
    \/ StartsWith(<<"/", "/", " ", "-", "*", "-", " ", "l", "s", "s", "t",
                    "-", "c", "+", "+", " ", "-", "*", "-">>, raw)

\* rule 4-1a has been applied
EmacsHeaderApplied ==
    \E k \in applied : initializeTestList[k].id = TestEmacsHeader.id

\* C19: on a C-family input whose first line lacks the marker comment, rule
\* 4-1a produces exactly one violation, on line 1, and none on any other
\* line; when line 1 carries the marker it produces none.
C19_FirstLineMarker ==
    (/\ EmacsHeaderApplied
     /\ filetype \in CTypes
     /\ Len(rawLines) >= 1) =>
        IF HasMarker(rawLines[1])
        THEN OfRule(TestEmacsHeader) = << >>
        ELSE /\ Len(OfRule(TestEmacsHeader)) = 1
             /\ OfRule(TestEmacsHeader)[1].lineNumber = 1

\* rule 4-1a has passed a file whose second line lacks the marker that its
\* first line carries
C19_Witness ==
    /\ EmacsHeaderApplied
    /\ filetype \in CTypes
    /\ Len(rawLines) = 2
    /\ HasMarker(rawLines[1])
    /\ ~HasMarker(rawLines[2])
    /\ OfRule(TestEmacsHeader) = << >>

\* the number of characters c in the text s
CountChar(c, s) == Cardinality({k \in 1..Len(s) : s[k] = c})

\* the opening braces less the closing braces of the normalized text of the
\* first n lines
RECURSIVE braceBalance(_)
braceBalance(n) ==
    IF n = 0 THEN 0
    ELSE braceBalance(n - 1) + CountChar("{", lines[n].stripped)
                             - CountChar("}", lines[n].stripped)

\* C20: the depth nNested stamped on line i is the number of "{" less the
\* number of "}" in the normalized text of the lines 1..i: every opening
\* brace adds one and every closing brace takes one away, also when a line
\* holds several braces of the same kind.
C20_BraceDepth ==
    \A i \in 1..nFlagged : lines[i].nNested = braceBalance(i)

\* the depth stamped on the line before line i, 0 before the first line
depthBefore(i) == IF i = 1 THEN 0 ELSE lines[i - 1].nNested

\* the change of depth the braces of a text stand for in flagLines: one up
\* when it holds an opening brace, one down when it holds a closing brace
braceStep(s) ==
    (IF Holds(<<"{">>, s) THEN 1 ELSE 0) - (IF Holds(<<"}">>, s) THEN 1 ELSE 0)

\* C21: the depth stamped on a line is the running brace counter after the
\* braces of the line itself have been counted, not the value before the
\* line: a line that opens a class body at outer depth 0 is stamped 1, and
\* the line that closes the body is stamped 0.
C21_DepthAfterLine ==
    \A i \in 1..nFlagged :
        /\ lines[i].nNested = depthBefore(i) + braceStep(lines[i].stripped)
        /\ (lines[i].raw \in {lnClassA, lnStructB} /\ depthBefore(i) = 0) =>
               lines[i].nNested = 1
        /\ (lines[i].raw = lnClassEnd /\ depthBefore(i) = 1) =>
               lines[i].nNested = 0

\* a class body was opened at depth 0 and closed two lines later
C21_Witness ==
    \E i \in 1..(nFlagged - 2) :
        /\ lines[i].raw = lnClassA /\ depthBefore(i) = 0
        /\ lines[i + 1].raw = lnIntX
        /\ lines[i + 2].raw = lnClassEnd /\ lines[i + 2].nNested = 0

\* the seven flags stamped on line i, and those of flagLines before line 1
FlagsOf(l) ==
    <<l.inClass, l.inStruct, l.inPublic, l.inProtected, l.inPrivate,
      l.inNestedClass, l.inNestedStruct>>
FlagsBefore(i) == IF i = 1 THEN FlagsOf(flagInit) ELSE FlagsOf(lines[i - 1])

\* a class or struct was open when line i was reached
OpenBefore(i) == i > 1 /\ (lines[i - 1].inClass \/ lines[i - 1].inStruct)

\* C22: a line that opens a class records the name of the class, sets
\* inClass, clears inStruct and the three access flags, and sets
\* inNestedClass if and only if a class or struct was open when the line was
\* reached; a line that opens a struct does the same with inStruct and
\* inNestedStruct; a forward declaration "class Name;" or "struct Name;"
\* changes no flag.
C22_ClassOpening ==
    \A i \in 1..nFlagged :
        /\ lines[i].raw = lnClassA =>
               /\ lines[i].className = <<"A">>
               /\ lines[i].inClass /\ ~lines[i].inStruct
               /\ AccessFlags(lines[i]) = {}
               /\ lines[i].inNestedClass = OpenBefore(i)
        /\ lines[i].raw = lnStructB =>
               /\ lines[i].structName = <<"B">>
               /\ lines[i].inStruct /\ ~lines[i].inClass
               /\ AccessFlags(lines[i]) = {}
               /\ lines[i].inNestedStruct = OpenBefore(i)
        /\ lines[i].raw \in {lnClassFwd, lnStructFwd} =>
               FlagsOf(lines[i]) = FlagsBefore(i)

\* a struct was opened inside the public part of a class, and a forward
\* declaration was read inside the public part of a class
C22_Witness ==
    /\ nFlagged = 3
    /\ lines[1].raw = lnClassA /\ lines[2].raw = lnPublic
    /\ \/ lines[3].raw = lnStructB /\ lines[3].inNestedStruct
       \/ lines[3].raw = lnClassFwd /\ lines[3].inPublic

\* flagLines reads a "};" while inNestedClass or inNestedStruct is set
NestedClose ==
    /\ pc = "flagLines"
    /\ nFlagged' = nFlagged + 1
    /\ lines[nFlagged + 1].raw = lnClassEnd
    /\ flag.inNestedClass \/ flag.inNestedStruct

\* C23: a "};" read while inNestedClass or inNestedStruct is set clears the
\* nested flag and nothing else of the class state: inClass, inStruct, the
\* three access flags and the recorded names of the class and the struct
\* are as before, the enclosing class or struct stays open, and the line
\* is stamped so.
C23_NestedCloseFrame ==
    [][NestedClose =>
          /\ ~flag'.inNestedClass /\ ~flag'.inNestedStruct
          /\ flag'.inClass = flag.inClass /\ flag'.inStruct = flag.inStruct
          /\ flag'.inClass \/ flag'.inStruct
          /\ flag'.inPublic = flag.inPublic
          /\ flag'.inProtected = flag.inProtected
          /\ flag'.inPrivate = flag.inPrivate
          /\ flag'.className = flag.className
          /\ flag'.structName = flag.structName
          /\ FlagsOf(lines'[nFlagged + 1]) = FlagsOf(flag')]_vars

\* a "};" has closed a struct nested in a class, the line after it was
\* stamped inside the enclosing body, and a second "};" has closed that
C23_Witness ==
    /\ nFlagged = 4
    /\ lines[1].raw = lnClassA
    /\ lines[2].raw = lnStructB /\ lines[2].inNestedStruct
    /\ lines[3].raw = lnClassEnd /\ ~lines[3].inNestedStruct
    /\ lines[3].inStruct
    /\ lines[4].raw = lnClassEnd /\ ~lines[4].inStruct /\ ~lines[4].inClass

\* flagLines reads the access specifier of the raw line raw
ReadsAccess(raw) ==
    /\ pc = "flagLines"
    /\ nFlagged' = nFlagged + 1
    /\ lines[nFlagged + 1].raw = raw

\* the access flags of the locals f are those of the set named
AccessIs(f, named) ==
    /\ f.inPublic = ("public" \in named)
    /\ f.inProtected = ("protected" \in named)
    /\ f.inPrivate = ("private" \in named)

\* a class or struct is open and no nested flag is set
DirectlyInside(f) ==
    (f.inClass \/ f.inStruct) /\ ~f.inNestedClass /\ ~f.inNestedStruct

\* C24: an access specifier, with or without leading white space, changes
\* the access flags only when a class or struct is open and no nested flag
\* is set, and then exactly the flag it names is true; outside every class
\* and struct, and while inNestedClass or inNestedStruct is set, the three
\* access flags are as they were before the line.
C24_AccessSpecifier ==
    [][/\ ReadsAccess(lnPublic) =>
             IF DirectlyInside(flag) THEN AccessIs(flag', {"public"})
             ELSE AccessIs(flag', AccessFlags(flag))
       /\ ReadsAccess(lnProtected) =>
             IF DirectlyInside(flag) THEN AccessIs(flag', {"protected"})
             ELSE AccessIs(flag', AccessFlags(flag))
       /\ (ReadsAccess(lnPublic) \/ ReadsAccess(lnProtected)) =>
             FlagsOf(lines'[nFlagged + 1]) = FlagsOf(flag')]_vars

\* an indented "protected:" was read after "public:" directly inside a
\* class, or inside a nested struct
C24_Witness ==
    /\ nFlagged = 3
    /\ lines[1].raw = lnClassA
    /\ lines[3].raw = lnProtected
    /\ \/ lines[2].raw = lnPublic /\ lines[2].inPublic
          /\ lines[3].inProtected /\ ~lines[3].inPublic
       \/ lines[2].raw = lnStructB /\ lines[3].inNestedStruct
          /\ AccessFlags(lines[3]) = {}

\* the text of s after the first occurrence of w, which s holds
After(w, s) == SubSeq(s, FirstAt(w, s) + Len(w), Len(s))

\* C25: in a file of the C family, once a line has opened a block comment
\* without closing it, inComment is set after every following line up to
\* the first line that holds the closer; the line with the closer clears
\* it, and the normalized text of that line is the text after the closer;
\* the lines after it are normalized as the lines of a file that begins
\* with them.
C25_CommentState ==
    filetype \in CTypes =>
        /\ inComment = commentAfter(rawLines, Len(lines))
        /\ \A i \in 1..Len(lines) :
               /\ (commentAfter(rawLines, i - 1)
                   /\ Holds(<<"*", "/">>, rawLines[i])) =>
                      lines[i].stripped = After(<<"*", "/">>, rawLines[i])
               /\ ~commentAfter(rawLines, i - 1) =>
                      lines[i].stripped
                          = parseLine(rawLines[i], filetype, FALSE,
                                      FALSE).stripped

\* a comment was opened, a line was read inside it, and the third line
\* closed it; or a comment was opened and closed and a line of code followed
C25_Witness ==
    /\ filetype \in CTypes
    /\ Len(lines) = 3
    /\ ~inComment
    /\ rawLines[1] = lnOpenComment
    /\ \/ rawLines[2] = lnIntX /\ rawLines[3] = lnCloseComment
       \/ rawLines[2] = lnCloseComment /\ rawLines[3] = lnIntX
          /\ lines[3].stripped = lnIntX

\* the blocks open after the first n raw lines, the outermost first: for
\* each block, whether it is the block of a switch statement
RECURSIVE openBlocks(_, _)
openBlocks(raws, n) ==
    IF n = 0 THEN << >>
    ELSE LET open == openBlocks(raws, n - 1)
         IN  IF Holds(<<"{">>, raws[n])
             THEN Append(open, StartsWith(<<"s", "w", "i", "t", "c", "h">>,
                                          raws[n]))
             ELSE IF Holds(<<"}">>, raws[n]) /\ open # << >>
             THEN SubSeq(open, 1, Len(open) - 1)
             ELSE open

\* line i lies inside the braces of a switch block
InsideSwitch(i) ==
    \E k \in 1..Len(openBlocks(rawLines, i - 1)) :
        openBlocks(rawLines, i - 1)[k]

\* the violations of rule 5-17 with the extra comment given
Reported517(extraComment) ==
    SelectSeq(violationList,
              LAMBDA v : v.id = TestBreakContinue.id
                         /\ v.extraComment = extraComment)

\* C26: rule 5-17 reports no "break;" line that lies inside the braces of a
\* switch block, whatever blocks and switch statements the switch block
\* holds.
C26_NoBreakInSwitch ==
    \A j \in 1..Len(Reported517(usedBreak)) :
        ~InsideSwitch(Reported517(usedBreak)[j].lineNumber)

\* C27: rule 5-17 reports no "continue;" line that lies inside the braces of
\* a switch block.
C27_NoContinueInSwitch ==
    \A j \in 1..Len(Reported517(usedContinue)) :
        ~InsideSwitch(Reported517(usedContinue)[j].lineNumber)

\* the raw line opens the body of a destructor
OpensDestructor(raw) ==
    /\ Holds(<<"{">>, raw)
    /\ \/ Holds(<<":", ":", "~">>, raw)
       \/ StartsWith(<<"v", "i", "r", "t", "u", "a", "l", " ", "~">>, raw)

\* the bodies open after the first n raw lines, the outermost first: for
\* each body, whether it is the body of a destructor
RECURSIVE openBodies(_, _)
openBodies(raws, n) ==
    IF n = 0 THEN << >>
    ELSE LET open == openBodies(raws, n - 1)
         IN  IF Holds(<<"{">>, raws[n])
             THEN Append(open, OpensDestructor(raws[n]))
             ELSE IF Holds(<<"}">>, raws[n]) /\ open # << >>
             THEN SubSeq(open, 1, Len(open) - 1)
             ELSE open

\* line i lies inside the body of a destructor
InsideDestructor(i) ==
    \E k \in 1..Len(openBodies(rawLines, i - 1)) :
        openBodies(rawLines, i - 1)[k]

\* C28: rule 5-28 reports a line that begins with "throw" only when the
\* line lies inside the body of a destructor: not in a function that
\* follows the declaration of a destructor without a body, and not after
\* the body of a destructor has been closed.
C28_ThrowOnlyInDestructor ==
    \A j \in 1..Len(violationList) :
        violationList[j].id = TestDestructorExceptions.id =>
            InsideDestructor(violationList[j].lineNumber)

\* the raw line ends in a semicolon, the end of the line apart
EndsInSemicolon(raw) == Len(raw) >= 2 /\ raw[Len(raw) - 1] = ";"

\* the first line from line i on that ends in a semicolon or holds an
\* opening brace; 0 when there is none
FirstStop(i) ==
    LET stops == {j \in i..Len(rawLines) :
                     EndsInSemicolon(rawLines[j])
                     \/ Holds(<<"{">>, rawLines[j])}
    IN  IF stops = {} THEN 0 ELSE Min(stops)

\* line i begins a declaration: a line ending in a semicolon is met before
\* any line with an opening brace
IsDeclaration(i) ==
    /\ FirstStop(i) # 0
    /\ ~Holds(<<"{">>, rawLines[FirstStop(i)])

\* the opening braces less the closing braces of the raw lines i..j
RECURSIVE depthOver(_, _)
depthOver(i, j) ==
    IF j < i THEN 0
    ELSE depthOver(i, j - 1) + CountChar("{", rawLines[j])
                             - CountChar("}", rawLines[j])

\* the line with the closing brace that matches the opening brace of the
\* definition that line i begins; 0 when there is none
MatchingClose(i) ==
    LET ends == {j \in FirstStop(i)..Len(rawLines) :
                    Holds(<<"}">>, rawLines[j]) /\ depthOver(i, j) = 0}
    IN  IF ends = {} THEN 0 ELSE Min(ends)

\* C29: getDefinitionLength(lines, i) returns -1 for a declaration: a line
\* ending in a semicolon is met, from line i on, before any line with an
\* opening brace.  For a definition it returns the distance from line i to
\* the line with the closing brace that matches the opening brace of the
\* definition, so that the closing brace of an inner block does not end the
\* measurement.
C29_DefinitionLength ==
    pc = "tests" =>
        \A i \in 1..Len(lines) :
            /\ IsDeclaration(i) =>
                   getDefinitionLength(lines, i) = Return(0 - 1)
            /\ (FirstStop(i) # 0 /\ ~IsDeclaration(i)
                /\ MatchingClose(i) # 0) =>
                   getDefinitionLength(lines, i)
                       = Return(MatchingClose(i) - i)

\* C30: on every stamped line at most one of inClass and inStruct is true:
\* the line that opens a struct is stamped with inStruct and without
\* inClass, the line that opens a class with inClass and without inStruct,
\* and the "};" that closes a nested class or struct leaves both flags as
\* they were on the line before; the name of the class is stamped only on
\* lines with inClass, the name of the struct only on lines with inStruct.
C30_ClassOrStruct ==
    \A i \in 1..nFlagged :
        /\ ~(lines[i].inClass /\ lines[i].inStruct)
        /\ lines[i].className # << >> => lines[i].inClass
        /\ lines[i].structName # << >> => lines[i].inStruct
        /\ lines[i].raw = lnStructB =>
               lines[i].inStruct /\ ~lines[i].inClass
        /\ lines[i].raw = lnClassA =>
               lines[i].inClass /\ ~lines[i].inStruct
        /\ (/\ i > 1
            /\ lines[i].raw = lnClassEnd
            /\ lines[i - 1].inNestedClass \/ lines[i - 1].inNestedStruct) =>
               /\ lines[i].inClass = lines[i - 1].inClass
               /\ lines[i].inStruct = lines[i - 1].inStruct

\* a struct was opened in a class and closed, and the line of the class
\* after it was stamped with inStruct and the name of the struct only
C30_Witness ==
    /\ nFlagged = 4
    /\ lines[1].raw = lnClassA /\ lines[1].inClass
    /\ lines[2].raw = lnStructB
    /\ lines[3].raw = lnClassEnd
    /\ lines[4].raw = lnIntX
    /\ lines[4].inStruct /\ ~lines[4].inClass
    /\ lines[4].structName = <<"B">> /\ lines[4].className = << >>

=============================================================================
